---------------------------- MODULE Spec2Model ----------------------------
(***************************************************************************)
(* Model of the location-analysis core of T2_offline_analysis:             *)
(*   - the operator classifier (_identify_operator),                       *)
(*   - the coverage metrics (CoverageAnalyzer),                            *)
(*   - the gap detector (GapAnalyzer),                                     *)
(*   - the efficiency bucketing and recommendations (LocationAnalyzer),    *)
(*   - the clustering stage (DataClustering),                              *)
(*   - the predictive models (PredictiveModeling),                         *)
(*   - the report emitters and the executive summary (ReportGenerator),    *)
(*   - the structured report file (utils/file_operations),                 *)
(*   - the pipeline driver (run_analysis.main),                            *)
(*   - the retry decorator (utils/error_handler.retry_on_error),           *)
(*   - the multi-city driver (run_all_cities) and its child process,       *)
(*   - the own-brand row filter of the analyzers.                          *)
(*                                                                         *)
(* Text.  A display name is a sequence of characters; a character is a     *)
(* one-element string.  Cyrillic letters are written in ASCII: "cy_x" is   *)
(* the lower-case and "CY_X" the upper-case Cyrillic letter x.             *)
(*                                                                         *)
(* Geometry.  A coordinate is a position on one meridian, counted in       *)
(* steps of 500 m, so that geodesic(a, b).km is |a - b| / 2.               *)
(* A record whose coordinates are missing has the coordinate NaN.          *)
(***************************************************************************)
EXTENDS Integers, Sequences, FiniteSets, TLC

VARIABLES
    name,       \* classifier: the display name handed to _identify_operator
    returned,   \* classifier: the labels the calls made so far have returned
    ncalls,     \* classifier: the number of calls made so far
    table,      \* analyses: the caller's DataFrame, [columns, rows]
    table0,     \* analyses: the table as it was handed to the first analysis
    runs,       \* analyses: the calls made so far, each [op, raised, ret]
    population_data,  \* GapAnalyzer: the population reference, <<city, population>> pairs
    effPc,      \* analyze_efficiency: "idle", "scoring" or "done"
    effRows,    \* analyze_efficiency: the number of own-brand rows of its table
    effIdx,     \* analyze_efficiency: the number of rows scored so far
    effScore,   \* analyze_efficiency: efficiency_score of the row scored last
    effCategory,  \* analyze_efficiency: efficiency_category of that row
    effResult,   \* analyze_efficiency: "none", "empty" ({}), "scores" or the error raised
    effCache,   \* _train_or_load_model: the artifact at model_path
    effOps,     \* _train_or_load_model: the model operations made so far
    effAttrs,   \* analyze_efficiency: the attributes the rows of its table may have
    effRow,     \* analyze_efficiency: the attributes of the row scored last
    effRec,     \* _generate_recommendations: the entries made for that row
    clPc,       \* perform_clustering: "idle", "kmeans", "dbscan", "visualize" or "done"
    clRows,     \* perform_clustering: the number of rows of its table
    clFeatures, \* perform_clustering: the number of numeric feature columns of the table
    clCalls,    \* perform_clustering: the clustering algorithms invoked so far
    clWcss,     \* _kmeans_clustering: the cluster count the wcss diagnostic points at
    clNClusters,  \* _kmeans_clustering: n_clusters of its result
    clLabelCount, \* _kmeans_clustering: the number of labels of its result so far
    clLabel,    \* _kmeans_clustering: the label assigned last
    clOutcome,   \* perform_clustering: "none", "empty" ({}), "clusters" or the error raised
    bmPc,       \* build_models: "idle" or "done"
    bmRows,     \* build_models: the number of own-brand rows of its table
    bmOps,      \* build_models: the model families fitted so far
    bmR2,       \* build_models: the held-out R2 of each family, in steps
    bmBest,     \* build_models: best_model of its result
    bmResult,    \* build_models: "none", "empty" ({}) or "models"
    repResults, \* ReportGenerator: analysis_results, <<name, data>> pairs in result order
    repFiles,   \* generate_reports: the formats whose file has been written
    repText,    \* generate_reports: the lines of the text report
    repReturned,  \* generate_reports: the formats of report_paths, "None" before a return
    repRaised,  \* generate_reports: "none", "no" or the error raised
    repSummary,  \* generate_executive_summary: the recommendations listed, {} before the call
    jsObject,   \* structured report: the AnalysisResult handed to write_json
    jsFile,     \* structured report: the document in the file, {} while there is none
    jsRaised,   \* structured report: "none", "no" or the error raised last
    jsRead,      \* structured report: the object read_json returned, {} before
    pipSkipCollection,  \* run_analysis: args.skip_collection
    pipSkipAnalysis,    \* run_analysis: args.skip_analysis
    pipTypes,   \* run_analysis: the organisation types still to collect
    pipPc,      \* run_analysis: the stage to run next, "success" or "exited"
    pipRan,     \* run_analysis: the stages entered so far
    pipLog,     \* run_analysis: the messages logged so far
    pipReports, \* run_analysis: the number of reports generated
    pipRaised,  \* run_analysis: <<stage, cause>> of the error raised, <<>> if none
    pipExit,     \* run_analysis: the exit status, -1 while running
    rtMaxRetries,   \* retry_on_error: max_retries of the decorator
    rtDelay,        \* retry_on_error: delay of the decorator
    rtBackoff,      \* retry_on_error: backoff of the decorator
    rtPc,           \* wrapper: "idle", "loop", "returned" or "raised"
    rtRetries,      \* wrapper: retries
    rtCurrentDelay, \* wrapper: current_delay
    rtTrace,        \* wrapper: the invocations of func and the sleeps, in order
    rtResult,        \* wrapper: what the call returned or raised
    effRuns,         \* analyze_efficiency: the earlier calls on one cache path, each [rows, ops, result]
    rcCities,       \* run_all_cities: CITIES of config.py
    rcIdx,          \* run_all_cities.main: i, the number of cities processed
    rcPc,           \* run_all_cities.main: "loop" or "done"
    rcSuccessful,   \* run_all_cities.main: successful_cities
    rcFailed,       \* run_all_cities.main: failed_cities
    rcTrace,         \* run_all_cities.main: the cities processed and the pauses, in order
    chProgram,      \* child process: the writes it has yet to make, "out" or "err" each
    chCode,         \* child process: the status it exits with
    chState,        \* child process: "unborn", "running" or "exited"
    pipeOut,        \* the lines in the pipe of the child's stdout
    pipeErr,        \* the lines in the pipe of the child's stderr
    parPc,          \* run_analysis_for_city: "start", "read_stdout" or "returned"
    parPrinted,     \* run_analysis_for_city: the number of lines it has printed
    parResult,       \* run_analysis_for_city: what it returned, "none" before
    flSelected      \* own-brand filter: whether it selected the row of the name, {} before

classVars == <<name, returned, ncalls>>
tableVars == <<table, table0, runs, population_data>>

effVars == <<effPc, effRows, effIdx, effScore, effCategory, effResult, effCache, effOps, effAttrs, effRow, effRec>>

clusterVars == <<clPc, clRows, clFeatures, clCalls, clWcss, clNClusters, clLabelCount, clLabel, clOutcome>>

modelVars == <<bmPc, bmRows, bmOps, bmR2, bmBest, bmResult>>

reportVars == <<repResults, repFiles, repText, repReturned, repRaised, repSummary>>

jsonVars == <<jsObject, jsFile, jsRaised, jsRead>>

pipelineVars == <<pipSkipCollection, pipSkipAnalysis, pipTypes, pipPc, pipRan, pipLog, pipReports, pipRaised, pipExit>>

retryVars == <<rtMaxRetries, rtDelay, rtBackoff, rtPc, rtRetries, rtCurrentDelay, rtTrace, rtResult>>

historyVars == <<effRuns>>

cityVars == <<rcCities, rcIdx, rcPc, rcSuccessful, rcFailed, rcTrace>>

childVars == <<chProgram, chCode, chState, pipeOut, pipeErr, parPc, parPrinted, parResult>>

filterVars == <<flSelected>>

vars == <<classVars, tableVars, effVars, clusterVars, modelVars, reportVars, jsonVars, pipelineVars, retryVars, historyVars, cityVars, childVars, filterVars>>

-----------------------------------------------------------------------------
(* Bounds of the model. *)

\* a display name is the concatenation of at most MaxFrags fragments
MaxFrags == 2
\* the classifier is called at most MaxCalls times on one name
MaxCalls == 2
\* a table of the coverage analysis has at most MaxRows rows
MaxRows == 3
\* a table of the gap analysis has at most MaxGapRows rows
MaxGapRows == 2
\* a table of the population analysis has at most MaxBulk own-brand rows
\* in one city
MaxBulk == 26
\* the coordinates of the coverage tables are the positions 0..MaxPos
MaxPos == 3
\* at most MaxRuns analyses are run on one table
MaxRuns == 2
\* the table of analyze_efficiency has at most MaxEffRows own-brand rows
MaxEffRows == 13
\* a predicted score lies at most ScoreMargin outside the bins' range
ScoreMargin == 2

\* a sequence of analyses on one table has at most MaxAnalyses calls
MaxAnalyses == 3

\* the table of perform_clustering has at most MaxClusterRows rows
MaxClusterRows == 11
\* and at most MaxFeatures numeric feature columns
MaxFeatures == 2

\* the table of build_models has at most MaxModelRows own-brand rows
MaxModelRows == 21
\* a held-out R2 is one of the steps -R2Steps..R2Steps
R2Steps == 2

\* an analysis has at most MaxRecs recommendations
MaxRecs == 3
\* and at most MaxMetrics metrics or efficiency scores
MaxMetrics == 1

\* run_analysis collects at most MaxTypes organisation types
MaxTypes == 2

\* retry_on_error is tried with max_retries up to MaxRetries,
MaxRetries == 3
\* a delay of up to MaxDelay seconds
MaxDelay == 2
\* and a backoff factor of up to MaxBackoff
MaxBackoff == 3

\* analyze_efficiency is called up to MaxEffRuns times on one cache path
MaxEffRuns == 3

\* CITIES names at most MaxCities cities
MaxCities == 3

\* a pipe holds at most PipeCapacity lines
PipeCapacity == 2
\* the child writes at most MaxChildWrites lines
MaxChildWrites == 4

-----------------------------------------------------------------------------
(* Text: characters, str() and str.lower(). *)

\* the missing value (None / NaN) of a text column: no text is equal to it
NaN == << "NaN" >>

\* the pairs (upper-case letter, lower-case letter) of the alphabet in use
CasePairs ==
    { <<"T", "t">>, <<"E", "e">>, <<"L", "l">>, <<"M", "m">>, <<"S", "s">>,
      <<"B", "b">>, <<"I", "i">>, <<"N", "n">>, <<"G", "g">>, <<"A", "a">>,
      <<"F", "f">>, <<"O", "o">>,
      <<"CY_T", "cy_t">>, <<"CY_M", "cy_m">>, <<"CY_S", "cy_s">>,
      <<"CY_B", "cy_b">>, <<"CY_I", "cy_i">>, <<"CY_L", "cy_l">>,
      <<"CY_A", "cy_a">>, <<"CY_J", "cy_j">>, <<"CY_N", "cy_n">>,
      <<"CY_E", "cy_e">>, <<"CY_G", "cy_g">>, <<"CY_F", "cy_f">>,
      <<"CY_O", "cy_o">> }

\* str.lower() on one character
LowerChar(c) ==
    IF \E p \in CasePairs : p[1] = c
    THEN (CHOOSE p \in CasePairs : p[1] = c)[2]
    ELSE c

\* str.lower()
Lower(s) == [i \in 1..Len(s) |-> LowerChar(s[i])]

\* str(name): a missing name (None / NaN) prints as the text "nan"
PyStr(n) == IF n = NaN THEN <<"n", "a", "n">> ELSE n

\* the Python test  tok in s  (substring search)
Contains(s, tok) ==
    \E i \in 1..(Len(s) - Len(tok) + 1) : SubSeq(s, i, i + Len(tok) - 1) = tok

\* the tokens of _identify_operator
tok_tele2   == <<"t", "e", "l", "e", "2">>
tok_t2      == <<"cy_t", "2">>
tok_mts_cy  == <<"cy_m", "cy_t", "cy_s">>
tok_mts     == <<"m", "t", "s">>
tok_beeline_cy == <<"cy_b", "cy_i", "cy_l", "cy_a", "cy_j", "cy_n">>
tok_beeline == <<"b", "e", "e", "l", "i", "n", "e">>
tok_megafon_cy == <<"cy_m", "cy_e", "cy_g", "cy_a", "cy_f", "cy_o", "cy_n">>
tok_megafon == <<"m", "e", "g", "a", "f", "o", "n">>

\* the labels: Tele2, MTS, Beeline, MegaFon and Other ("Drugoj")
Labels == {"Tele2", "MTS", "Beeline", "MegaFon", "Other"}
CompetitorLabels == {"MTS", "Beeline", "MegaFon"}

-----------------------------------------------------------------------------
(* The operator classifier. *)

\* a slip of the rule order: a competitor's tokens tested before the own brand's
identify_operator_mts_first(n) ==
    LET name_lower == Lower(PyStr(n)) IN
    IF Contains(name_lower, tok_mts_cy) \/ Contains(name_lower, tok_mts)
    THEN "MTS"
    ELSE IF Contains(name_lower, tok_tele2) \/ Contains(name_lower, tok_t2)
    THEN "Tele2"
    ELSE IF Contains(name_lower, tok_beeline_cy) \/ Contains(name_lower, tok_beeline)
    THEN "Beeline"
    ELSE IF Contains(name_lower, tok_megafon_cy) \/ Contains(name_lower, tok_megafon)
    THEN "MegaFon"
    ELSE "Other"

\* a slip of the last rule: no default branch, the function falls off its end
identify_operator_no_default(n) ==
    LET name_lower == Lower(PyStr(n)) IN
    IF Contains(name_lower, tok_tele2) \/ Contains(name_lower, tok_t2)
    THEN "Tele2"
    ELSE IF Contains(name_lower, tok_mts_cy) \/ Contains(name_lower, tok_mts)
    THEN "MTS"
    ELSE IF Contains(name_lower, tok_beeline_cy) \/ Contains(name_lower, tok_beeline)
    THEN "Beeline"
    ELSE IF Contains(name_lower, tok_megafon_cy) \/ Contains(name_lower, tok_megafon)
    THEN "MegaFon"
    ELSE "None"

\* GapAnalyzer._identify_operator
identify_operator(n) ==
    LET name_lower == Lower(PyStr(n)) IN
    IF Contains(name_lower, tok_tele2) \/ Contains(name_lower, tok_t2)
    THEN "Tele2"
    ELSE IF Contains(name_lower, tok_mts_cy) \/ Contains(name_lower, tok_mts)
    THEN "MTS"
    ELSE IF Contains(name_lower, tok_beeline_cy) \/ Contains(name_lower, tok_beeline)
    THEN "Beeline"
    ELSE IF Contains(name_lower, tok_megafon_cy) \/ Contains(name_lower, tok_megafon)
    THEN "MegaFon"
    ELSE "Other"

\* CompetitorAnalyzer._identify_operator (the same rules, written out again)
competitor_identify_operator(n) ==
    LET name_lower == Lower(PyStr(n)) IN
    IF Contains(name_lower, tok_tele2) \/ Contains(name_lower, tok_t2)
    THEN "Tele2"
    ELSE IF Contains(name_lower, tok_mts_cy) \/ Contains(name_lower, tok_mts)
    THEN "MTS"
    ELSE IF Contains(name_lower, tok_beeline_cy) \/ Contains(name_lower, tok_beeline)
    THEN "Beeline"
    ELSE IF Contains(name_lower, tok_megafon_cy) \/ Contains(name_lower, tok_megafon)
    THEN "MegaFon"
    ELSE "Other"

-----------------------------------------------------------------------------
(* Display names: concatenations of fragments. *)

Fragments ==
    { <<"T", "e", "l", "e", "2">>,                       \* Tele2
      <<"T", "E", "L", "E", "2">>,                       \* TELE2
      <<"t", "e", "l", "e">>,                            \* tele
      <<"2">>,
      <<"CY_T">>,                                        \* upper-case Cyrillic T
      <<"cy_t", "2">>,                                   \* own brand, lower case
      <<"CY_T", "2">>,                                   \* own brand, upper case
      <<"CY_M", "CY_T", "CY_S">>,                        \* MTS in Cyrillic
      <<"M", "T", "S">>,                                 \* MTS in Latin
      <<"CY_M", "cy_t">>,                                \* a word ending in "Mt"
      <<"CY_B", "cy_i", "cy_l", "cy_a", "cy_j", "cy_n">>,  \* Beeline in Cyrillic
      <<"B", "e", "e", "l", "i", "n", "e">>,
      <<"CY_M", "cy_e", "cy_g", "cy_a", "CY_F", "cy_o", "cy_n">>,  \* MegaFon
      <<"m", "e", "g", "a", "f", "o", "n">>,
      <<"CY_S", "cy_a", "cy_l", "cy_o", "cy_n">>,         \* "Salon", no operator
      <<" ">> }

RECURSIVE NamesOf(_)
NamesOf(k) ==
    IF k = 0 THEN { <<>> }
    ELSE LET shorter == NamesOf(k - 1) IN
         shorter \cup { n \o f : n \in shorter, f \in Fragments }

\* the names the classifier is tried on: texts, and the missing name
Names == NamesOf(MaxFrags) \cup {NaN}

-----------------------------------------------------------------------------
(* The classifier as a state machine: calls on one name. *)

\* the analyses are not part of the classifier's runs
TableIdle ==
    /\ table = [columns |-> {}, rows |-> <<>>]
    /\ table0 = table
    /\ runs = <<>>
    /\ population_data = <<>>

\* the classifier's calls are not part of the analyses' runs
ClassIdle ==
    /\ name = <<>>
    /\ returned = {}
    /\ ncalls = 0

\* a cell of a row: <<>> when the table has no such column, else <<x>> with x
\* the value {v} or the missing value {}
Cell(x) == << x >>
NoColumn == <<>>

\* a row with a rating of 3, 5 reviews, a walkability of 5 and a shopping centre
PlainRow ==
    [rating |-> Cell({3}), reviews_count |-> Cell({5}),
     walkability_score |-> Cell({5}), nearby_shopping_centers_count |-> Cell({1})]

\* analyze_efficiency is not part of the other runs
EffIdle ==
    /\ effPc = "idle"
    /\ effRows = 0
    /\ effIdx = 0
    /\ effScore = 0
    /\ effCategory = "NaN"
    /\ effResult = "none"
    /\ effCache = "missing"
    /\ effOps = <<>>
    /\ effAttrs = {PlainRow}
    /\ effRow = PlainRow
    /\ effRec = <<>>

\* perform_clustering is not part of the other runs
ClusterIdle ==
    /\ clPc = "idle"
    /\ clRows = 0
    /\ clFeatures = 0
    /\ clCalls = <<>>
    /\ clWcss = 0
    /\ clNClusters = 0
    /\ clLabelCount = 0
    /\ clLabel = 0
    /\ clOutcome = "none"

\* build_models is not part of the other runs
ModelIdle ==
    /\ bmPc = "idle"
    /\ bmRows = 0
    /\ bmOps = <<>>
    /\ bmR2 = <<>>
    /\ bmBest = "None"
    /\ bmResult = "none"

\* the report generator is not part of the other runs
ReportIdle ==
    /\ repResults = <<>>
    /\ repFiles = {}
    /\ repText = <<>>
    /\ repReturned = "None"
    /\ repRaised = "none"
    /\ repSummary = {}

\* the structured report is not part of the other runs
JsonIdle ==
    /\ jsObject = [t |-> "dict", v |-> <<>>]
    /\ jsFile = {}
    /\ jsRaised = "none"
    /\ jsRead = {}

\* run_analysis is not part of the other runs
PipelineIdle ==
    /\ pipSkipCollection = TRUE
    /\ pipSkipAnalysis = TRUE
    /\ pipTypes = 0
    /\ pipPc = "exited"
    /\ pipRan = <<>>
    /\ pipLog = <<>>
    /\ pipReports = 0
    /\ pipRaised = <<>>
    /\ pipExit = 0 - 1

\* no wrapped function is called in the other runs
RetryIdle ==
    /\ rtMaxRetries = 0
    /\ rtDelay = 0
    /\ rtBackoff = 0
    /\ rtPc = "idle"
    /\ rtRetries = 0
    /\ rtCurrentDelay = 0
    /\ rtTrace = <<>>
    /\ rtResult = [t |-> "none", k |-> 0]

\* analyze_efficiency is called once at most in the other runs
HistoryIdle == effRuns = <<>>

\* run_all_cities is not part of the other runs
CitiesIdle ==
    /\ rcCities = <<>>
    /\ rcIdx = 0
    /\ rcPc = "done"
    /\ rcSuccessful = <<>>
    /\ rcFailed = <<>>
    /\ rcTrace = <<>>

\* no child process is run in the other runs
ChildIdle ==
    /\ chProgram = <<>>
    /\ chCode = 0
    /\ chState = "exited"
    /\ pipeOut = 0
    /\ pipeErr = 0
    /\ parPc = "returned"
    /\ parPrinted = 0
    /\ parResult = "none"

\* the own-brand filter is not called on the classifier's name in the other runs
FilterIdle == flSelected = {}

InitClassify ==
    /\ FilterIdle
    /\ ChildIdle
    /\ CitiesIdle
    /\ HistoryIdle
    /\ RetryIdle
    /\ PipelineIdle
    /\ JsonIdle
    /\ ReportIdle
    /\ ModelIdle
    /\ ClusterIdle
    /\ name \in Names
    /\ returned = {}
    /\ ncalls = 0
    /\ TableIdle
    /\ EffIdle

\* a call of GapAnalyzer._identify_operator(name)
CallGapIdentify ==
    /\ ncalls < MaxCalls
    /\ returned' = returned \cup { identify_operator(name) }
    /\ ncalls' = ncalls + 1
    /\ UNCHANGED <<name, tableVars, effVars, clusterVars, modelVars, reportVars, jsonVars, pipelineVars, retryVars, historyVars, cityVars, childVars, filterVars>>

\* a call of CompetitorAnalyzer._identify_operator(name)
CallCompetitorIdentify ==
    /\ ncalls < MaxCalls
    /\ returned' = returned \cup { competitor_identify_operator(name) }
    /\ ncalls' = ncalls + 1
    /\ UNCHANGED <<name, tableVars, effVars, clusterVars, modelVars, reportVars, jsonVars, pipelineVars, retryVars, historyVars, cityVars, childVars, filterVars>>

NextClassify == CallGapIdentify \/ CallCompetitorIdentify

SpecClassify == InitClassify /\ [][NextClassify]_vars

-----------------------------------------------------------------------------
(* DataFrames.  A frame is [columns, rows]; a row is a record with one     *)
(* field per column.  A numeric cell is the set {v} of its value, and the  *)
(* empty set when the value is missing (NaN).                              *)

isna(x) == x = {}
Value(x) == CHOOSE v \in x : TRUE
Abs(x) == IF x < 0 THEN -x ELSE x
EmptyMap == <<>>

\* the letters re.IGNORECASE takes for the letter of a pattern beyond its upper
\* and its lower case: "cy_tall_t" (U+1C84, tall te) and "cy_three_t" (U+1C85,
\* three-legged te) match the Cyrillic te; str.lower() leaves both as they are
RegexEquivalences == { <<"cy_tall_t", "cy_t">>, <<"cy_three_t", "cy_t">> }

\* the letter under which re.IGNORECASE compares the character c
RegexFold(c) ==
    LET l == LowerChar(c) IN
    IF \E p \in RegexEquivalences : p[1] = l
    THEN (CHOOSE p \in RegexEquivalences : p[1] = l)[2]
    ELSE l

\* re.IGNORECASE: two characters match when they are one letter
IgnoreCaseEq(a, b) == RegexFold(a) = RegexFold(b)

\* re.search(alt, s, re.IGNORECASE) for a literal alt
regex_search_ignorecase(s, alt) ==
    \E i \in 1..(Len(s) - Len(alt) + 1) :
        \A k \in 1..Len(alt) : IgnoreCaseEq(s[i + k - 1], alt[k])

\* the alternatives of the pattern 'Tele2|T2' (the second T is Cyrillic)
pat_Tele2 == <<"T", "e", "l", "e", "2">>
pat_T2    == <<"CY_T", "2">>

\* Series.str.contains('Tele2|T2', case=False, na=False) on one name
str_contains_tele2(n) ==
    IF n = NaN THEN FALSE
    ELSE regex_search_ignorecase(n, pat_Tele2) \/ regex_search_ignorecase(n, pat_T2)

\* df[df['city'] == city]
rows_of_city(rows, city) == SelectSeq(rows, LAMBDA r : r.city = city)

\* df[['latitude', 'longitude']].dropna().values
coords_dropna(rows) ==
    LET ok == SelectSeq(rows, LAMBDA r : ~isna(r.latitude) /\ ~isna(r.longitude))
    IN  [i \in 1..Len(ok) |-> <<Value(ok[i].latitude), Value(ok[i].longitude)>>]

\* geodesic(a, b).km, in steps of 500 m: the records lie on one meridian
geodesic(a, b) == Abs(a[1] - b[1])

\* df['city'].unique(): the cities in the order of their first row
RECURSIVE unique_cities(_)
unique_cities(rows) ==
    IF rows = <<>> THEN <<>>
    ELSE LET front == unique_cities(SubSeq(rows, 1, Len(rows) - 1))
             c == rows[Len(rows)].city
         IN  IF \E i \in 1..Len(front) : front[i] = c THEN front ELSE Append(front, c)

Range(f) == { f[i] : i \in DOMAIN f }

RECURSIVE SumOver(_, _)
\* the sum of f over the finite set S of its arguments
SumOver(f, S) ==
    IF S = {} THEN 0
    ELSE LET x == CHOOSE y \in S : TRUE IN f[x] + SumOver(f, S \ {x})

-----------------------------------------------------------------------------
(* Coverage metrics: CoverageAnalyzer. *)

\* the density thresholds of _calculate_density_metrics, 5 km and 2 km,
\* in steps of 500 m
DensityLowAbove == 10
DensityMediumAbove == 4
\* DBSCAN(eps=0.02, min_samples=3): 0.02 degrees of latitude are 2.2 km,
\* so two positions are neighbours when at most 4 steps of 500 m apart
DbscanEps == 4
DbscanMinSamples == 3

\* CoverageAnalyzer._filter_tele2_locations
filter_tele2_locations(df) ==
    [df EXCEPT !.rows = SelectSeq(df.rows, LAMBDA r : str_contains_tele2(r.name))]

\* the pairs (i, j), i < j, of the two nested loops over range(len(coords))
IndexPairs(n) == { p \in (1..n) \X (1..n) : p[1] < p[2] }

\* a slip of the second comparison: a mean of exactly 2 km counted as medium
density_label_ge(avg) ==
    IF avg[1] > DensityLowAbove * avg[2] THEN "Low"
    ELSE IF avg[1] >= DensityMediumAbove * avg[2] THEN "Medium"
    ELSE "High"

\* the if / elif / else on avg_distance; avg is the mean <<sum, count>>
density_label(avg) ==
    IF avg[1] > DensityLowAbove * avg[2] THEN "Low"
    ELSE IF avg[1] > DensityMediumAbove * avg[2] THEN "Medium"
    ELSE "High"

\* the distances list of one city: the mean <<sum, count>> over the pairs
city_distances(city_rows) ==
    LET coords == coords_dropna(city_rows)
        pairs == IndexPairs(Len(coords))
        dist == [p \in pairs |-> geodesic(coords[p[1]], coords[p[2]])]
    IN  <<SumOver(dist, pairs), Cardinality(pairs)>>

\* a slip of the guard: a city with one row taken into the metrics
density_cities_ge1(df) ==
    { c \in Range(unique_cities(df.rows)) :
        /\ Len(rows_of_city(df.rows, c)) >= 1
        /\ city_distances(rows_of_city(df.rows, c))[2] >= 0 }

\* the cities that get an entry: more than one row, and a distance measured
density_cities(df) ==
    { c \in Range(unique_cities(df.rows)) :
        /\ Len(rows_of_city(df.rows, c)) > 1
        /\ city_distances(rows_of_city(df.rows, c))[2] > 0 }

\* CoverageAnalyzer._calculate_density_metrics
calculate_density_metrics(df) ==
    LET cities == density_cities(df)
        keys == { <<c, k>> : c \in cities, k \in {"avg_distance_km", "coverage_density"} }
    IN  [key \in keys |->
            LET avg == city_distances(rows_of_city(df.rows, key[1])) IN
            IF key[2] = "avg_distance_km" THEN avg ELSE density_label(avg)]

\* CoverageAnalyzer._calculate_coverage_metrics; a quotient is <<num, den>>
calculate_coverage_metrics(df) ==
    IF Len(df.rows) = 0 THEN EmptyMap
    ELSE LET ncities == Cardinality(Range(unique_cities(df.rows))) IN
         (<<"total_locations">> :> Len(df.rows)) @@
         (<<"cities_covered">> :> ncities) @@
         (<<"avg_locations_per_city">> :> IF ncities > 0 THEN <<Len(df.rows), ncities>> ELSE <<0, 1>>) @@
         calculate_density_metrics(df)

\* the neighbours of point i within eps (the point itself among them)
dbscan_neighbours(cs, i) ==
    { j \in 1..Len(cs) : Abs(cs[i][1] - cs[j][1]) <= DbscanEps }

\* the core samples: at least min_samples neighbours
dbscan_cores(cs) ==
    { i \in 1..Len(cs) : Cardinality(dbscan_neighbours(cs, i)) >= DbscanMinSamples }

RECURSIVE dbscan_grow(_, _)
\* the core samples a cluster grown from the core samples S takes in
dbscan_grow(cs, S) ==
    LET more == S \cup { j \in dbscan_cores(cs) :
                            \E i \in S : j \in dbscan_neighbours(cs, i) }
    IN  IF more = S THEN S ELSE dbscan_grow(cs, more)

SetMin(S) == CHOOSE x \in S : \A y \in S : x <= y

\* the label of core sample i: clusters are numbered from 0 in the order of
\* their first core sample
dbscan_core_label(cs, i) ==
    LET first(k) == SetMin(dbscan_grow(cs, {k})) IN
    Cardinality({ first(k) : k \in { c \in dbscan_cores(cs) : first(c) < first(i) } })

\* DBSCAN(eps, min_samples).fit(cs).labels_ : a border point takes the first
\* cluster grown that reaches it, a point no core sample reaches is noise (-1)
dbscan_labels(cs) ==
    [i \in 1..Len(cs) |->
        IF i \in dbscan_cores(cs) THEN dbscan_core_label(cs, i)
        ELSE LET near == dbscan_neighbours(cs, i) \cap dbscan_cores(cs) IN
             IF near = {} THEN -1
             ELSE SetMin({ dbscan_core_label(cs, k) : k \in near })]

\* np.argmin over the distances from p to every coordinate of cs
argmin_distance(cs, p) ==
    SetMin({ i \in 1..Len(cs) :
                \A j \in 1..Len(cs) : geodesic(p, cs[i]) <= geodesic(p, cs[j]) })

\* df[c] = values: the frame with the column c set, row by row
with_column(df, c, values) ==
    [columns |-> df.columns \cup {c},
     rows |-> [i \in 1..Len(df.rows) |->
                 (c :> values[i]) @@ df.rows[i]]]

\* a slip: the cluster labels written into the caller's frame, no copy taken
identify_coverage_gaps_no_copy(all_df, tele2_df) ==
    LET all_coords == coords_dropna(all_df.rows) IN
    IF Len(all_coords) < 2
    THEN [raised |-> "no", ret |-> [gap_locations |-> <<>>], caller_df |-> all_df]
    ELSE IF Len(all_coords) # Len(all_df.rows)
    THEN [raised |-> "ValueError", ret |-> EmptyMap, caller_df |-> all_df]
    ELSE
      LET labels == dbscan_labels(all_coords)
          local == with_column(all_df, "cluster", labels)
          tele2_coords == coords_dropna(tele2_df.rows)
          tele2_clusters ==
              { labels[argmin_distance(all_coords, tele2_coords[t])] :
                    t \in 1..Len(tele2_coords) }
          gap_clusters == Range(labels) \ tele2_clusters
          gap_idx == { i \in 1..Len(all_coords) : labels[i] \in gap_clusters }
          gap_coords == SelectSeq(all_coords,
                                  LAMBDA c : \E i \in gap_idx : all_coords[i] = c)
      IN [raised |-> "no",
          ret |-> [gap_clusters_count |-> Cardinality(gap_clusters),
                   gap_locations_count |-> Cardinality(gap_idx),
                   gap_locations |-> gap_coords],
          caller_df |-> local]

\* CoverageAnalyzer._identify_coverage_gaps.  The labels cover the rows that
\* have coordinates; writing them as a column of a frame with more rows than
\* labels raises ValueError.  caller_df is the caller's frame after the call.
identify_coverage_gaps(all_df, tele2_df) ==
    LET all_coords == coords_dropna(all_df.rows) IN
    IF Len(all_coords) < 2
    THEN [raised |-> "no", ret |-> [gap_locations |-> <<>>], caller_df |-> all_df]
    ELSE IF Len(all_coords) # Len(all_df.rows)
    THEN [raised |-> "ValueError", ret |-> EmptyMap, caller_df |-> all_df]
    ELSE
      LET labels == dbscan_labels(all_coords)
          \* all_df = all_df.copy(); all_df['cluster'] = clustering.labels_
          local == with_column(all_df, "cluster", labels)
          tele2_coords == coords_dropna(tele2_df.rows)
          tele2_clusters ==
              { labels[argmin_distance(all_coords, tele2_coords[t])] :
                    t \in 1..Len(tele2_coords) }
          gap_clusters == Range(labels) \ tele2_clusters
          gap_idx == { i \in 1..Len(all_coords) : labels[i] \in gap_clusters }
          gap_coords == SelectSeq(all_coords,
                                  LAMBDA c : \E i \in gap_idx : all_coords[i] = c)
      IN [raised |-> "no",
          ret |-> [gap_clusters_count |-> Cardinality(gap_clusters),
                   gap_locations_count |-> Cardinality(gap_idx),
                   gap_locations |-> gap_coords],
          caller_df |-> all_df]

\* Series.mean() of a numeric column: <<sum, count>> over the values present
column_mean(rows, c) ==
    LET present == { i \in 1..Len(rows) : ~isna(rows[i][c]) }
        val == [i \in present |-> Value(rows[i][c])]
    IN  <<SumOver(val, present), Cardinality(present)>>

\* CoverageAnalyzer._analyze_city_coverage
analyze_city_coverage(df) ==
    [c \in Range(unique_cities(df.rows)) |->
        LET city_rows == rows_of_city(df.rows, c) IN
        [location_count |-> Len(city_rows),
         avg_rating |-> IF "rating" \in df.columns
                        THEN column_mean(city_rows, "rating") ELSE <<0, 1>>,
         avg_reviews |-> IF "reviews_count" \in df.columns
                         THEN column_mean(city_rows, "reviews_count") ELSE <<0, 1>>]]

\* CoverageAnalyzer._generate_coverage_recommendations: the gap sentence, then
\* one sentence per city of low or of high density, in the order of the metrics
generate_coverage_recommendations(df, metrics, gap_analysis) ==
    LET gap_count == IF "gap_locations_count" \in DOMAIN gap_analysis
                     THEN gap_analysis.gap_locations_count ELSE 0
        cities == SelectSeq(unique_cities(df.rows),
                     LAMBDA c : /\ <<c, "coverage_density">> \in DOMAIN metrics
                                /\ metrics[<<c, "coverage_density">>] \in {"Low", "High"})
    IN  (IF gap_count > 0 THEN << <<"white_spots", gap_count>> >> ELSE <<>>)
        \o [i \in 1..Len(cities) |->
               <<metrics[<<cities[i], "coverage_density">>], cities[i]>>]

\* the columns analyze_coverage reads without a test for their presence
CoverageColumns == {"name", "city", "latitude", "longitude"}

\* CoverageAnalyzer.analyze_coverage: [raised, ret, caller_df]
analyze_coverage(df) ==
    IF ~(CoverageColumns \subseteq df.columns)
    THEN [raised |-> "KeyError", ret |-> EmptyMap, caller_df |-> df]
    ELSE
      LET tele2_df == filter_tele2_locations(df)
          coverage_metrics == calculate_coverage_metrics(tele2_df)
          gaps == identify_coverage_gaps(df, tele2_df)
      IN  IF gaps.raised # "no"
          THEN [raised |-> gaps.raised, ret |-> EmptyMap, caller_df |-> gaps.caller_df]
          ELSE [raised |-> "no",
                ret |-> [metrics |-> coverage_metrics,
                         gaps |-> gaps.ret,
                         city_analysis |-> analyze_city_coverage(tele2_df),
                         recommendations |->
                             generate_coverage_recommendations(
                                 tele2_df, coverage_metrics, gaps.ret)],
                caller_df |-> gaps.caller_df]

-----------------------------------------------------------------------------
(* Gap detector: GapAnalyzer. *)

\* the radius of the infrastructure gaps, 2.0 km, in steps of 500 m
InfrastructureRadius == 4
\* the radius of the competitive gaps, 1.5 km, in steps of 500 m
CompetitiveRadius == 3
\* the infrastructure threshold: shopping centers > 2, metro > 0, anchors > 1
MinShoppingCenters == 2
MinMetro == 0
MinAnchorTenants == 1
\* per_capita = location_count / population * 100000
PerCapitaScale == 100000
\* 'Sufficient' when per_capita >= 2
SufficientPer100k == 2

\* GapAnalyzer._load_population_data: the built-in reference, in its order
load_population_data ==
    << <<"Moskva", 12600000>>, <<"Sankt-Peterburg", 5400000>>,
       <<"Novosibirsk", 1620000>>, <<"Ekaterinburg", 1490000>>,
       <<"Kazan", 1250000>> >>

\* a slip of the comparison: exactly 2 per 100k counted as insufficient
sufficiency_gt(location_count, population) ==
    IF location_count * PerCapitaScale > SufficientPer100k * population
    THEN "Sufficient" ELSE "Insufficient"

\* 'Sufficient' if per_capita >= 2 else 'Insufficient'
sufficiency(location_count, population) ==
    IF location_count * PerCapitaScale >= SufficientPer100k * population
    THEN "Sufficient" ELSE "Insufficient"

\* GapAnalyzer._analyze_population_gaps; per_100k is the quotient <<num, den>>
analyze_population_gaps(reference, tele2_df) ==
    LET listed == { i \in 1..Len(reference) : reference[i][2] > 0 } IN
    [city \in { reference[i][1] : i \in listed } |->
        LET population == (CHOOSE e \in Range(reference) : e[1] = city)[2]
            location_count == Len(rows_of_city(tele2_df.rows, city))
        IN  [population |-> population,
             locations |-> location_count,
             per_100k |-> <<location_count * PerCapitaScale, population>>,
             sufficiency |-> sufficiency(location_count, population)]]

\* area.get(c, 0) > 0 and the value of the column, 0 when the test fails
positive_or_zero(df, area, c) ==
    IF c \in df.columns /\ ~isna(area[c]) /\ Value(area[c]) > 0
    THEN Value(area[c]) ELSE 0

\* GapAnalyzer._calculate_infrastructure_score, as the quotient <<num, 2>>:
\* shopping * 2 + metro * 3 + anchors * 1.5 + min(stops * 0.5, 3)
calculate_infrastructure_score(df, area) ==
    LET stops == positive_or_zero(df, area, "public_transport_stops_count") IN
    << 4 * positive_or_zero(df, area, "nearby_shopping_centers_count")
       + 6 * positive_or_zero(df, area, "nearby_metro_count")
       + 3 * positive_or_zero(df, area, "anchor_tenants_count")
       + (IF stops < 6 THEN stops ELSE 6),
       2 >>

\* a comparison with a missing value is False
greater(x, bound) == ~isna(x) /\ Value(x) > bound

\* the rows of all_df that meet the infrastructure threshold
developed_areas(all_df) ==
    SelectSeq(all_df.rows, LAMBDA r :
        /\ greater(r.nearby_shopping_centers_count, MinShoppingCenters)
        /\ greater(r.nearby_metro_count, MinMetro)
        /\ greater(r.anchor_tenants_count, MinAnchorTenants))

\* a slip of the comparison: a distance of exactly the radius counted as near
has_nearby_tele2_le(area, tele2_coords, radius) ==
    \E t \in 1..Len(tele2_coords) :
        geodesic(<<Value(area.latitude), Value(area.longitude)>>, tele2_coords[t]) <= radius

\* the inner loop over tele2_coords: some own-brand coordinate nearer than radius
has_nearby_tele2(area, tele2_coords, radius) ==
    \E t \in 1..Len(tele2_coords) :
        geodesic(<<Value(area.latitude), Value(area.longitude)>>, tele2_coords[t]) < radius

\* the rows of areas that have coordinates and no own-brand row nearby
gap_rows(areas, tele2_coords, radius) ==
    SelectSeq(areas, LAMBDA area :
        /\ ~(isna(area.latitude) \/ isna(area.longitude))
        /\ ~has_nearby_tele2(area, tele2_coords, radius))

Unknown == "Unknown"

\* a slip of the filter: every row taken for a developed area
infrastructure_gap_rows_all(all_df, tele2_df) ==
    gap_rows(all_df.rows, coords_dropna(tele2_df.rows), InfrastructureRadius)

\* the rows _analyze_infrastructure_gaps reports
infrastructure_gap_rows(all_df, tele2_df) ==
    gap_rows(developed_areas(all_df), coords_dropna(tele2_df.rows), InfrastructureRadius)

\* GapAnalyzer._analyze_infrastructure_gaps
analyze_infrastructure_gaps(all_df, tele2_df) ==
    LET found == infrastructure_gap_rows(all_df, tele2_df)
        gap_areas ==
            [i \in 1..Len(found) |->
                [location |-> IF "name" \in all_df.columns THEN found[i].name ELSE Unknown,
                 address |-> IF "address" \in all_df.columns THEN found[i].address ELSE Unknown,
                 infrastructure_score |-> calculate_infrastructure_score(all_df, found[i])]]
    IN  [gap_areas |-> gap_areas, gap_count |-> Len(gap_areas)]

\* the rows _analyze_competitive_gaps reports; all_df has the operator column
competitive_gap_rows(all_df, tele2_df) ==
    LET competitor_areas ==
            SelectSeq(all_df.rows, LAMBDA r :
                /\ r.operator \in CompetitorLabels
                /\ r.operator \notin {"Tele2", "Other"})
    IN  gap_rows(competitor_areas, coords_dropna(tele2_df.rows), CompetitiveRadius)

\* GapAnalyzer._analyze_competitive_gaps: [ret, caller_df]; the operator column
\* is written into the frame of the caller
analyze_competitive_gaps(all_df, tele2_df) ==
    LET labelled == with_column(all_df, "operator",
                        [i \in 1..Len(all_df.rows) |-> identify_operator(all_df.rows[i].name)])
        found == competitive_gap_rows(labelled, tele2_df)
        gap_areas ==
            [i \in 1..Len(found) |->
                [location |-> found[i].name,
                 address |-> IF "address" \in labelled.columns THEN found[i].address ELSE Unknown,
                 competitor |-> found[i].operator,
                 competitor_rating |-> IF "rating" \in labelled.columns
                                       THEN found[i].rating ELSE {0}]]
    IN  [ret |-> [gap_areas |-> gap_areas, gap_count |-> Len(gap_areas)],
         caller_df |-> labelled]

\* GapAnalyzer._generate_gap_recommendations
generate_gap_recommendations(reference, population_gaps, infrastructure_gaps, competitive_gaps) ==
    LET short == SelectSeq(reference, LAMBDA e :
                     /\ e[1] \in DOMAIN population_gaps
                     /\ population_gaps[e[1]].sufficiency = "Insufficient")
    IN  [i \in 1..Len(short) |-> <<"insufficient", short[i][1]>>]
        \o (IF infrastructure_gaps.gap_count > 0
            THEN << <<"infrastructure", infrastructure_gaps.gap_count>> >> ELSE <<>>)
        \o (IF competitive_gaps.gap_count > 0
            THEN << <<"competitive", competitive_gaps.gap_count>> >> ELSE <<>>)

\* the columns analyze_gaps reads without a test for their presence, in the
\* order in which it reads them
GapColumnsRead ==
    << "name", "city", "nearby_shopping_centers_count", "nearby_metro_count",
       "anchor_tenants_count", "latitude", "longitude" >>

\* df[c] for a column the frame does not have raises KeyError
gap_key_error(df) ==
    \E i \in 1..Len(GapColumnsRead) : GapColumnsRead[i] \notin df.columns

\* GapAnalyzer.analyze_gaps: [raised, ret, caller_df]
analyze_gaps(reference, df) ==
    IF gap_key_error(df)
    THEN [raised |-> "KeyError", ret |-> EmptyMap, caller_df |-> df]
    ELSE
      LET tele2_df == [df EXCEPT !.rows = SelectSeq(df.rows,
                                    LAMBDA r : str_contains_tele2(r.name))]
          population_gaps == analyze_population_gaps(reference, tele2_df)
          infrastructure_gaps == analyze_infrastructure_gaps(df, tele2_df)
          competitive == analyze_competitive_gaps(df, tele2_df)
      IN  [raised |-> "no",
           ret |-> [population_gaps |-> population_gaps,
                    infrastructure_gaps |-> infrastructure_gaps,
                    competitive_gaps |-> competitive.ret,
                    recommendations |->
                        generate_gap_recommendations(reference, population_gaps,
                            infrastructure_gaps, competitive.ret)],
           caller_df |-> competitive.caller_df]

-----------------------------------------------------------------------------
(* The tables of the coverage analysis. *)

\* display names of the rows: the own brand's, a competitor's
name_tele2 == <<"T", "e", "l", "e", "2">>
name_t2    == <<"CY_T", "2">>
name_mts   == <<"CY_M", "CY_T", "CY_S">>
name_salon == <<"CY_S", "cy_a", "cy_l", "cy_o", "cy_n">>

\* cities: Moscow and Kazan are in the population reference, Tver is not
Moskva == "Moskva"
Kazan  == "Kazan"
Tver   == "Tver"

\* a coordinate pair: both values present, or both missing
CoordsUpTo(n) == { <<{p}, {0}>> : p \in 0..n } \cup { <<{}, {}>> }

\* the row with the required columns
Row(n, a, c, co) ==
    [name |-> n, address |-> a, city |-> c, latitude |-> co[1], longitude |-> co[2]]

\* the frames of at most n rows drawn from the set R; the address of a row is
\* its number
FramesOf(R, n, columns) ==
    { [columns |-> columns,
       rows |-> [i \in 1..Len(rs) |-> [rs[i] EXCEPT !.address = i]]] :
         rs \in UNION { [1..k -> R] : k \in 0..n } }

RequiredColumns == {"name", "address", "city", "latitude", "longitude"}

\* own-brand rows in Moscow at every position or without coordinates, own-brand
\* rows in Kazan at two positions or without coordinates, and competitor rows
\* in Moscow with or without coordinates
CoverageRows ==
    { Row(name_t2, 0, Moskva, co) : co \in CoordsUpTo(MaxPos) }
    \cup { Row(name_tele2, 0, Kazan, co) : co \in CoordsUpTo(1) }
    \cup { Row(name_mts, 0, Moskva, co) : co \in CoordsUpTo(0) }

CoverageTables == FramesOf(CoverageRows, MaxRows, RequiredColumns)

InitCoverage ==
    /\ FilterIdle
    /\ ChildIdle
    /\ CitiesIdle
    /\ HistoryIdle
    /\ RetryIdle
    /\ PipelineIdle
    /\ JsonIdle
    /\ ReportIdle
    /\ ModelIdle
    /\ ClusterIdle
    /\ table \in CoverageTables
    /\ table0 = table
    /\ runs = <<>>
    /\ population_data = load_population_data
    /\ ClassIdle
    /\ EffIdle

\* a call of analyze_coverage(table)
AnalyzeCoverage ==
    /\ Len(runs) < MaxRuns
    /\ \A i \in 1..Len(runs) : runs[i].op = "analyze_coverage"
    /\ LET r == analyze_coverage(table) IN
         /\ runs' = Append(runs, [op |-> "analyze_coverage",
                                  raised |-> r.raised, ret |-> r.ret])
         /\ table' = r.caller_df
    /\ UNCHANGED <<table0, population_data, classVars, effVars, clusterVars, modelVars, reportVars, jsonVars, pipelineVars, retryVars, historyVars, cityVars, childVars, filterVars>>

\* a call of _calculate_density_metrics on the own-brand rows of the table
CallDensityMetrics ==
    /\ runs = <<>>
    /\ runs' = Append(runs, [op |-> "density_metrics", raised |-> "no",
                             ret |-> calculate_density_metrics(
                                         filter_tele2_locations(table))])
    /\ UNCHANGED <<table, table0, population_data, classVars, effVars, clusterVars, modelVars, reportVars, jsonVars, pipelineVars, retryVars, historyVars, cityVars, childVars, filterVars>>

NextCoverage == AnalyzeCoverage \/ CallDensityMetrics

SpecCoverage == InitCoverage /\ [][NextCoverage]_vars

\* the frames of own-brand rows of one city whose mean distance runs from 0
\* to beyond the upper threshold
DensityTables ==
    FramesOf({ Row(name_t2, 0, Moskva, co) :
                  co \in CoordsUpTo(DensityLowAbove + 1) \ { <<{}, {}>> } },
             MaxRows, RequiredColumns)

InitDensity ==
    /\ FilterIdle
    /\ ChildIdle
    /\ CitiesIdle
    /\ HistoryIdle
    /\ RetryIdle
    /\ PipelineIdle
    /\ JsonIdle
    /\ ReportIdle
    /\ ModelIdle
    /\ ClusterIdle
    /\ table \in DensityTables
    /\ table0 = table
    /\ runs = <<>>
    /\ population_data = load_population_data
    /\ ClassIdle
    /\ EffIdle

NextDensity == CallDensityMetrics

SpecDensity == InitDensity /\ [][NextDensity]_vars

-----------------------------------------------------------------------------
(* The tables of the gap analysis. *)

InfraColumns ==
    {"nearby_shopping_centers_count", "nearby_metro_count", "anchor_tenants_count"}

GapColumns ==
    RequiredColumns \cup InfraColumns \cup {"public_transport_stops_count", "rating"}

\* the row with the columns the gap analysis reads; infra is
\* <<shopping centers, metro stations, anchor tenants, transit stops>>
GapRow(n, c, co, infra) ==
    [name |-> n, address |-> 0, city |-> c, latitude |-> co[1], longitude |-> co[2],
     nearby_shopping_centers_count |-> {infra[1]},
     nearby_metro_count |-> {infra[2]},
     anchor_tenants_count |-> {infra[3]},
     public_transport_stops_count |-> {infra[4]},
     rating |-> {4}]

\* infrastructure that meets the threshold, and three that miss one condition
infra_rich       == <<3, 1, 2, 7>>
infra_few_shops  == <<2, 1, 2, 1>>
infra_no_metro   == <<3, 0, 2, 1>>
infra_one_anchor == <<3, 1, 1, 0>>

NoCoords == << {}, {} >>
At(p) == << {p}, {0} >>

\* own-brand rows at every distance up to the larger radius from position 0,
\* competitor rows and rows of no operator at position 0 or without
\* coordinates, with infrastructure above and below the threshold
GapRows ==
    { GapRow(name_t2, Moskva, co, infra_few_shops) : co \in CoordsUpTo(InfrastructureRadius) }
    \cup { GapRow(name_tele2, Moskva, At(0), infra_rich) }
    \cup { GapRow(name_mts, Moskva, co, infra_few_shops) : co \in {At(0), NoCoords} }
    \cup { GapRow(name_mts, Moskva, At(0), infra_rich) }
    \cup { GapRow(name_salon, Moskva, co, infra_rich) : co \in {At(0), NoCoords} }
    \cup { GapRow(name_salon, Moskva, At(0), infra) :
              infra \in {infra_few_shops, infra_no_metro, infra_one_anchor} }

GapTables == FramesOf(GapRows, MaxGapRows, GapColumns)

InitGap ==
    /\ FilterIdle
    /\ ChildIdle
    /\ CitiesIdle
    /\ HistoryIdle
    /\ RetryIdle
    /\ PipelineIdle
    /\ JsonIdle
    /\ ReportIdle
    /\ ModelIdle
    /\ ClusterIdle
    /\ table \in GapTables
    /\ table0 = table
    /\ runs = <<>>
    /\ population_data = load_population_data
    /\ ClassIdle
    /\ EffIdle

\* a call of analyze_gaps(table): the first, or the rerun after a move
AnalyzeGaps ==
    /\ IF runs = <<>> THEN TRUE ELSE runs[Len(runs)].op = "move"
    /\ LET r == analyze_gaps(population_data, table) IN
         /\ runs' = Append(runs, [op |-> "analyze_gaps", df |-> table,
                                  raised |-> r.raised, ret |-> r.ret])
         /\ table' = r.caller_df
    /\ UNCHANGED <<table0, population_data, classVars, effVars, clusterVars, modelVars, reportVars, jsonVars, pipelineVars, retryVars, historyVars, cityVars, childVars, filterVars>>

\* between two runs the caller moves one own-brand record to other coordinates
MoveOwnBrand ==
    /\ Len(runs) = 1
    /\ runs[1].op = "analyze_gaps"
    /\ runs[1].raised = "no"
    /\ \E i \in 1..Len(table.rows), p \in 0..InfrastructureRadius :
         /\ str_contains_tele2(table.rows[i].name)
         /\ table.rows[i].latitude # {p}
         /\ table' = [table EXCEPT !.rows[i].latitude = {p},
                                   !.rows[i].longitude = {0}]
    /\ runs' = Append(runs, [op |-> "move"])
    /\ UNCHANGED <<table0, population_data, classVars, effVars, clusterVars, modelVars, reportVars, jsonVars, pipelineVars, retryVars, historyVars, cityVars, childVars, filterVars>>

NextGap == AnalyzeGaps \/ MoveOwnBrand

SpecGap == InitGap /\ [][NextGap]_vars

\* a reference a caller installs in place of the built-in one: a city of one
\* million and a settlement of fifty thousand
test_population_data == << <<"Gorod", 1000000>>, <<"Selo", 50000>> >>

\* n copies of the row r
Copies(r, n) == [i \in 1..n |-> r]

\* the tables of k own-brand rows in the city big, with or without a competitor
\* row in that city and an own-brand row in the city small
BulkTables(big, small) ==
    { [columns |-> GapColumns,
       rows |-> LET rs == Copies(GapRow(name_t2, big, At(0), infra_few_shops), k)
                          \o Copies(GapRow(name_mts, big, At(0), infra_few_shops), m)
                          \o Copies(GapRow(name_tele2, small, At(0), infra_few_shops), j)
                IN  [i \in 1..Len(rs) |-> [rs[i] EXCEPT !.address = i]]] :
         k \in 0..MaxBulk, m \in 0..1, j \in 0..1 }

InitPopulation ==
    /\ FilterIdle
    /\ ChildIdle
    /\ CitiesIdle
    /\ HistoryIdle
    /\ RetryIdle
    /\ PipelineIdle
    /\ JsonIdle
    /\ ReportIdle
    /\ ModelIdle
    /\ ClusterIdle
    /\ \/ /\ population_data = load_population_data
          /\ table \in BulkTables(Kazan, Tver)
       \/ /\ population_data = test_population_data
          /\ table \in BulkTables("Gorod", "Selo") \cup BulkTables("Gorod", Tver)
    /\ table0 = table
    /\ runs = <<>>
    /\ ClassIdle
    /\ EffIdle

NextPopulation == AnalyzeGaps

SpecPopulation == InitPopulation /\ [][NextPopulation]_vars

\* the frame df without the columns cols
drop_columns(df, cols) ==
    [columns |-> df.columns \ cols,
     rows |-> [i \in 1..Len(df.rows) |->
                 [c \in (DOMAIN df.rows[i]) \ cols |-> df.rows[i][c]]]]

\* tables that lack optional columns, or one required column
ColumnTables ==
    { drop_columns(t, cols) :
        t \in FramesOf({ GapRow(name_t2, Moskva, At(0), infra_few_shops),
                         GapRow(name_mts, Moskva, At(InfrastructureRadius), infra_rich),
                         GapRow(name_salon, Moskva, At(InfrastructureRadius), infra_rich),
                         GapRow(name_mts, Kazan, NoCoords, infra_few_shops) },
                       MaxGapRows, GapColumns),
        cols \in { {}, InfraColumns, {"public_transport_stops_count"}, {"rating"},
                   GapColumns \ RequiredColumns,
                   {"name"}, {"address"}, {"city"}, {"latitude"}, {"longitude"} } }

InitColumns ==
    /\ FilterIdle
    /\ ChildIdle
    /\ CitiesIdle
    /\ HistoryIdle
    /\ RetryIdle
    /\ PipelineIdle
    /\ JsonIdle
    /\ ReportIdle
    /\ ModelIdle
    /\ ClusterIdle
    /\ table \in ColumnTables
    /\ table0 = table
    /\ runs = <<>>
    /\ population_data = load_population_data
    /\ ClassIdle
    /\ EffIdle

NextColumns == AnalyzeGaps

SpecColumns == InitColumns /\ [][NextColumns]_vars

-----------------------------------------------------------------------------
(* Efficiency scores: LocationAnalyzer.analyze_efficiency.  The rows are     *)
(* scored one at a time; a score is a whole number.                          *)

\* if len(tele2_df) < 10: return {}
MinEfficiencyRows == 10

\* a slip: a table of exactly the minimum is turned away as well
insufficient_data_le(count, minimum) == count <= minimum

\* the test of a model stage for a table with too few own-brand rows
insufficient_data(count, minimum) == count < minimum

\* bins=[0, 10, 15, 20, 25] and labels=[Low, Medium, High, VeryHigh]
cut_bins == <<0, 10, 15, 20, 25>>
cut_labels == <<"Low", "Medium", "High", "VeryHigh">>

\* pd.cut(score, bins, labels): the label of the interval (bins[b], bins[b+1]]
\* the score lies in, and NaN for a score in none of them
pd_cut(score) ==
    LET hit == { b \in 1..Len(cut_labels) :
                    cut_bins[b] < score /\ score <= cut_bins[b + 1] }
    IN  IF hit = {} THEN "NaN" ELSE cut_labels[CHOOSE b \in hit : TRUE]

\* the scores model.predict(X) may return
Scores == (cut_bins[1] - ScoreMargin)..(cut_bins[Len(cut_bins)] + ScoreMargin)

\* the artifact at model_path: none, a file that does not unpickle, a model
\* fitted on the columns of the current table, a model fitted on other columns
CacheStates == {"missing", "corrupt", "compatible", "incompatible"}

\* a slip: a model that does not fit the table is fitted anew
train_or_load_model_refit(cache) ==
    IF cache \in {"missing", "corrupt", "incompatible"}
    THEN [raised |-> "no", ops |-> <<"load", "train", "save">>,
          model |-> "compatible", cache |-> "compatible"]
    ELSE [raised |-> "no", ops |-> <<"load">>, model |-> cache, cache |-> cache]

\* LocationAnalyzer._train_or_load_model: joblib.load, and on any error of it
\* a new model is fitted and saved at model_path
train_or_load_model(cache) ==
    IF cache \in {"missing", "corrupt"}
    THEN [raised |-> "no", ops |-> <<"load", "train", "save">>,
          model |-> "compatible", cache |-> "compatible"]
    ELSE [raised |-> "no", ops |-> <<"load">>, model |-> cache, cache |-> cache]

\* self.model.predict(X): a model fitted on other columns rejects X
predict_raises(model) == model = "incompatible"

\* row.get(column, 0)
row_get(cell, default) == IF cell = NoColumn THEN {default} ELSE cell[1]

\* x < bound, which is false of a missing value
less(x, bound) == x # {} /\ Value(x) < bound

\* LocationAnalyzer._analyze_single_location
analyze_single_location(row) ==
    (IF less(row_get(row.rating, 0), 3) THEN <<"service_quality">> ELSE <<>>)
    \o (IF less(row_get(row.reviews_count, 0), 5) THEN <<"reviews">> ELSE <<>>)
    \o (IF less(row_get(row.walkability_score, 0), 5) THEN <<"accessibility">> ELSE <<>>)
    \o (IF row_get(row.nearby_shopping_centers_count, 0) = {0} THEN <<"mall">> ELSE <<>>)

\* the entry of one location
recommendation_entry(r) ==
    [current_score |-> r.efficiency_score, recommendations |-> analyze_single_location(r.row)]

\* a slip: every location gets an entry
generate_recommendations_all(df) ==
    [i \in 1..Len(df) |-> recommendation_entry(df[i])]

\* LocationAnalyzer._generate_recommendations
generate_recommendations(df) ==
    LET low_efficiency == SelectSeq(df, LAMBDA r : r.efficiency_category = "Low") IN
    [i \in 1..Len(low_efficiency) |-> recommendation_entry(low_efficiency[i])]

\* the attributes a row may have
RowAttributes ==
    [rating : {Cell({}), Cell({2}), Cell({3})},
     reviews_count : {Cell({4}), Cell({5})},
     walkability_score : {NoColumn, Cell({}), Cell({4}), Cell({5})},
     nearby_shopping_centers_count : {NoColumn, Cell({}), Cell({0}), Cell({1})}]

InitEfficiency ==
    /\ FilterIdle
    /\ ChildIdle
    /\ CitiesIdle
    /\ HistoryIdle
    /\ RetryIdle
    /\ PipelineIdle
    /\ JsonIdle
    /\ ReportIdle
    /\ ModelIdle
    /\ ClusterIdle
    /\ effPc = "idle"
    /\ effRows \in 0..MaxEffRows
    /\ effIdx = 0
    /\ effScore = 0
    /\ effCategory = "NaN"
    /\ effResult = "none"
    /\ effCache \in CacheStates
    /\ effOps = <<>>
    /\ effAttrs = {PlainRow}
    /\ effRow = PlainRow
    /\ effRec = <<>>
    /\ ClassIdle
    /\ TableIdle

\* analyze_efficiency on a table with too few own-brand rows returns {}
EfficiencyTooFewRows ==
    /\ effPc = "idle"
    /\ insufficient_data(effRows, MinEfficiencyRows)
    /\ effPc' = "done"
    /\ effResult' = "empty"
    /\ UNCHANGED <<effRows, effIdx, effScore, effCategory, effCache, effOps, effAttrs, effRow, effRec, classVars, tableVars, clusterVars, modelVars, reportVars, jsonVars, pipelineVars, retryVars, historyVars, cityVars, childVars, filterVars>>

\* analyze_efficiency with enough rows: the model is loaded or trained and
\* predict is called; when predict accepts the table the rows are scored
EfficiencyStart ==
    /\ effPc = "idle"
    /\ ~insufficient_data(effRows, MinEfficiencyRows)
    /\ LET m == train_or_load_model(effCache) IN
         /\ effOps' = m.ops
         /\ effCache' = m.cache
         /\ IF m.raised # "no"
            THEN effPc' = "done" /\ effResult' = m.raised
            ELSE IF predict_raises(m.model)
            THEN effPc' = "done" /\ effResult' = "ValueError"
            ELSE effPc' = "scoring" /\ effResult' = effResult
    /\ UNCHANGED <<effRows, effIdx, effScore, effCategory, effAttrs, effRow, effRec, classVars, tableVars, clusterVars, modelVars, reportVars, jsonVars, pipelineVars, retryVars, historyVars, cityVars, childVars, filterVars>>

\* the next row gets its predicted efficiency_score and its efficiency_category,
\* and its entry of the recommendations when the category is Low
EfficiencyScoreRow ==
    /\ effPc = "scoring"
    /\ effIdx < effRows
    /\ \E score \in Scores, row \in effAttrs :
         /\ effScore' = score
         /\ effCategory' = pd_cut(score)
         /\ effRow' = row
         /\ effRec' = generate_recommendations(
                        << [row |-> row, efficiency_score |-> score,
                            efficiency_category |-> pd_cut(score)] >>)
    /\ effIdx' = effIdx + 1
    /\ UNCHANGED <<effPc, effRows, effResult, effCache, effOps, effAttrs, classVars, tableVars, clusterVars, modelVars, reportVars, jsonVars, pipelineVars, retryVars, historyVars, cityVars, childVars, filterVars>>

\* every row is scored: the result with efficiency_scores is returned
EfficiencyFinish ==
    /\ effPc = "scoring"
    /\ effIdx = effRows
    /\ effPc' = "done"
    /\ effResult' = "scores"
    /\ UNCHANGED <<effRows, effIdx, effScore, effCategory, effCache, effOps, effAttrs, effRow, effRec, classVars, tableVars, clusterVars, modelVars, reportVars, jsonVars, pipelineVars, retryVars, historyVars, cityVars, childVars, filterVars>>

NextEfficiency ==
    \/ EfficiencyTooFewRows
    \/ EfficiencyStart
    \/ EfficiencyScoreRow
    \/ EfficiencyFinish

SpecEfficiency == InitEfficiency /\ [][NextEfficiency]_vars

\* tables of about the minimum of rows; the rows of a table are of one kind
InitRecommendations ==
    /\ FilterIdle
    /\ ChildIdle
    /\ CitiesIdle
    /\ HistoryIdle
    /\ RetryIdle
    /\ PipelineIdle
    /\ JsonIdle
    /\ ReportIdle
    /\ ModelIdle
    /\ effPc = "idle"
    /\ effRows \in (MinEfficiencyRows - 1)..MinEfficiencyRows
    /\ effIdx = 0
    /\ effScore = 0
    /\ effCategory = "NaN"
    /\ effResult = "none"
    /\ effCache = "missing"
    /\ effOps = <<>>
    /\ effAttrs \in { {row} : row \in RowAttributes }
    /\ effRow = PlainRow
    /\ effRec = <<>>
    /\ ClassIdle
    /\ TableIdle
    /\ ClusterIdle

SpecRecommendations == InitRecommendations /\ [][NextEfficiency]_vars

-----------------------------------------------------------------------------
(* Clustering: DataClustering.perform_clustering.  The feature matrix is     *)
(* known by its shape; the labels of the partition are assigned one row at   *)
(* a time.                                                                   *)

\* if len(X) < 10: return {}
MinClusteringRows == 10
\* max_clusters = min(10, len(X))
MaxElbowClusters == 10
\* optimal_clusters = 3
OptimalClusters == 3
\* PCA(n_components=2)
PcaComponents == 2

Min(a, b) == IF a < b THEN a ELSE b

\* DataClustering._prepare_clustering_data: the number of rows of X, or the
\* error of StandardScaler.fit_transform on a matrix without rows
prepare_clustering_data(rows, features) ==
    IF features = 0 THEN [raised |-> "no", len |-> 0]
    ELSE IF rows = 0 THEN [raised |-> "ValueError", len |-> 0]
    ELSE [raised |-> "no", len |-> rows]

\* a slip: the partition takes the cluster count the diagnostic points at
kmeans_n_clusters_elbow(wcss) == wcss

\* DataClustering._kmeans_clustering: n_clusters of the result
kmeans_n_clusters(wcss) == OptimalClusters

\* KMeans(n_clusters).fit_predict: the labels a row may get
kmeans_labels(n_clusters) == 0..(n_clusters - 1)

InitClustering ==
    /\ FilterIdle
    /\ ChildIdle
    /\ CitiesIdle
    /\ HistoryIdle
    /\ RetryIdle
    /\ PipelineIdle
    /\ JsonIdle
    /\ ReportIdle
    /\ ModelIdle
    /\ clPc = "idle"
    /\ clRows \in 0..MaxClusterRows
    /\ clFeatures \in 0..MaxFeatures
    /\ clCalls = <<>>
    /\ clWcss = 0
    /\ clNClusters = 0
    /\ clLabelCount = 0
    /\ clLabel = 0
    /\ clOutcome = "none"
    /\ ClassIdle
    /\ TableIdle
    /\ EffIdle

\* perform_clustering on a table that gives fewer than 10 feature rows: {} is
\* returned, or the error of _prepare_clustering_data is passed on
ClusteringInsufficient ==
    /\ clPc = "idle"
    /\ LET X == prepare_clustering_data(clRows, clFeatures) IN
         /\ X.raised # "no" \/ X.len < MinClusteringRows
         /\ clOutcome' = IF X.raised # "no" THEN X.raised ELSE "empty"
    /\ clPc' = "done"
    /\ UNCHANGED <<clRows, clFeatures, clCalls, clWcss, clNClusters, clLabelCount, clLabel, classVars, tableVars, effVars, modelVars, reportVars, jsonVars, pipelineVars, retryVars, historyVars, cityVars, childVars, filterVars>>

\* perform_clustering with enough rows enters _kmeans_clustering: the wcss of
\* 1..max_clusters clusters are measured and the cluster count is fixed
KMeansDiagnostic ==
    /\ clPc = "idle"
    /\ LET X == prepare_clustering_data(clRows, clFeatures) IN
         /\ X.raised = "no"
         /\ X.len >= MinClusteringRows
         /\ \E elbow \in 1..Min(MaxElbowClusters, X.len) :
              /\ clWcss' = elbow
              /\ clNClusters' = kmeans_n_clusters(elbow)
    /\ clCalls' = Append(clCalls, "kmeans")
    /\ clPc' = "kmeans"
    /\ UNCHANGED <<clRows, clFeatures, clLabelCount, clLabel, clOutcome, classVars, tableVars, effVars, modelVars, reportVars, jsonVars, pipelineVars, retryVars, historyVars, cityVars, childVars, filterVars>>

\* fit_predict gives the next row its label
KMeansLabelRow ==
    /\ clPc = "kmeans"
    /\ clLabelCount < clRows
    /\ \E l \in kmeans_labels(clNClusters) : clLabel' = l
    /\ clLabelCount' = clLabelCount + 1
    /\ UNCHANGED <<clPc, clRows, clFeatures, clCalls, clWcss, clNClusters, clOutcome, classVars, tableVars, effVars, modelVars, reportVars, jsonVars, pipelineVars, retryVars, historyVars, cityVars, childVars, filterVars>>

\* _kmeans_clustering returns; _dbscan_clustering runs on the same matrix
DbscanClustering ==
    /\ clPc = "kmeans"
    /\ clLabelCount = clRows
    /\ clCalls' = Append(clCalls, "dbscan")
    /\ clPc' = "visualize"
    /\ UNCHANGED <<clRows, clFeatures, clWcss, clNClusters, clLabelCount, clLabel, clOutcome, classVars, tableVars, effVars, modelVars, reportVars, jsonVars, pipelineVars, retryVars, historyVars, cityVars, childVars, filterVars>>

\* _visualize_clusters projects the matrix on two components, which a matrix
\* with fewer columns does not have; otherwise the result is returned
ClusteringFinish ==
    /\ clPc = "visualize"
    /\ clOutcome' = IF clFeatures < PcaComponents THEN "ValueError" ELSE "clusters"
    /\ clPc' = "done"
    /\ UNCHANGED <<clRows, clFeatures, clCalls, clWcss, clNClusters, clLabelCount, clLabel, classVars, tableVars, effVars, modelVars, reportVars, jsonVars, pipelineVars, retryVars, historyVars, cityVars, childVars, filterVars>>

NextClustering ==
    \/ ClusteringInsufficient
    \/ KMeansDiagnostic
    \/ KMeansLabelRow
    \/ DbscanClustering
    \/ ClusteringFinish

SpecClustering == InitClustering /\ [][NextClustering]_vars

-----------------------------------------------------------------------------
(* Predictive models: PredictiveModeling.build_models. *)

\* if len(tele2_df) < 20: return {}
MinModelRows == 20

\* the keys of results, in the order in which build_models inserts them
ModelNames == <<"linear_regression", "random_forest", "gradient_boosting">>

\* the values r2_score may return, in steps
R2Values == (0 - R2Steps)..R2Steps

\* the loop of _select_best_model from the i-th family on; best_r2 is the empty
\* set for -inf
RECURSIVE select_best_from(_, _, _, _)
select_best_from(r2, i, best_model, best_r2) ==
    IF i > Len(r2) THEN best_model
    ELSE IF best_r2 = {} \/ r2[i] > Value(best_r2)
         THEN select_best_from(r2, i + 1, ModelNames[i], {r2[i]})
         ELSE select_best_from(r2, i + 1, best_model, best_r2)

\* a slip: a family that equals the best so far replaces it
RECURSIVE select_last_best_from(_, _, _, _)
select_last_best_from(r2, i, best_model, best_r2) ==
    IF i > Len(r2) THEN best_model
    ELSE IF best_r2 = {} \/ r2[i] >= Value(best_r2)
         THEN select_last_best_from(r2, i + 1, ModelNames[i], {r2[i]})
         ELSE select_last_best_from(r2, i + 1, best_model, best_r2)

select_best_model_ge(r2) == select_last_best_from(r2, 1, "None", {})

\* PredictiveModeling._select_best_model
select_best_model(r2) == select_best_from(r2, 1, "None", {})

InitBuildModels ==
    /\ FilterIdle
    /\ ChildIdle
    /\ CitiesIdle
    /\ HistoryIdle
    /\ RetryIdle
    /\ PipelineIdle
    /\ JsonIdle
    /\ ReportIdle
    /\ bmPc = "idle"
    /\ bmRows \in 0..MaxModelRows
    /\ bmOps = <<>>
    /\ bmR2 = <<>>
    /\ bmBest = "None"
    /\ bmResult = "none"
    /\ ClassIdle
    /\ TableIdle
    /\ EffIdle
    /\ ClusterIdle

\* build_models on a table with too few own-brand rows returns {}
BuildModelsTooFewRows ==
    /\ bmPc = "idle"
    /\ insufficient_data(bmRows, MinModelRows)
    /\ bmPc' = "done"
    /\ bmResult' = "empty"
    /\ UNCHANGED <<bmRows, bmOps, bmR2, bmBest, classVars, tableVars, effVars, clusterVars, reportVars, jsonVars, pipelineVars, retryVars, historyVars, cityVars, childVars, filterVars>>

\* build_models with enough rows: the three families are fitted and evaluated,
\* the best of them is selected and the result is returned
BuildModels ==
    /\ bmPc = "idle"
    /\ ~insufficient_data(bmRows, MinModelRows)
    /\ \E r2 \in [1..Len(ModelNames) -> R2Values] :
         /\ bmR2' = r2
         /\ bmBest' = select_best_model(r2)
    /\ bmOps' = ModelNames
    /\ bmPc' = "done"
    /\ bmResult' = "models"
    /\ UNCHANGED <<bmRows, classVars, tableVars, effVars, clusterVars, reportVars, jsonVars, pipelineVars, retryVars, historyVars, cityVars, childVars, filterVars>>

NextBuildModels ==
    \/ BuildModelsTooFewRows
    \/ BuildModels

SpecBuildModels == InitBuildModels /\ [][NextBuildModels]_vars

\* the two model stages, each on a table of its own
InitModelStages ==
    /\ FilterIdle
    /\ ChildIdle
    /\ CitiesIdle
    /\ HistoryIdle
    /\ RetryIdle
    /\ PipelineIdle
    /\ JsonIdle
    /\ ReportIdle
    /\ effPc = "idle"
    /\ effRows \in (MinEfficiencyRows - 1)..MinEfficiencyRows
    /\ effIdx = 0
    /\ effScore = 0
    /\ effCategory = "NaN"
    /\ effResult = "none"
    /\ effCache \in CacheStates
    /\ effOps = <<>>
    /\ effAttrs = {PlainRow}
    /\ effRow = PlainRow
    /\ effRec = <<>>
    /\ bmPc = "idle"
    /\ bmRows \in (MinModelRows - 1)..MinModelRows
    /\ bmOps = <<>>
    /\ bmR2 = <<>>
    /\ bmBest = "None"
    /\ bmResult = "none"
    /\ ClassIdle
    /\ TableIdle
    /\ ClusterIdle

NextModelStages ==
    \/ NextEfficiency
    \/ NextBuildModels

SpecModelStages == InitModelStages /\ [][NextModelStages]_vars

-----------------------------------------------------------------------------
(* Reports: analysis.report_generator.ReportGenerator.  The data of an       *)
(* analysis are known by the number of their metrics, efficiency scores and  *)
(* recommendations; a line of the text report is <<section, kind, index>>.   *)

\* all_recommendations[:5]
SummaryTop == 5

\* the formats generate_reports emits, in its order
Emitters == <<"json", "csv", "text", "dashboard">>

\* name in analysis_results
has_key(results, key) == \E i \in 1..Len(results) : results[i][1] = key

\* analysis_results[name]
get_item(results, key) ==
    results[CHOOSE i \in 1..Len(results) : results[i][1] = key][2]

\* the lines of one section of the text report: its header, its metrics, the
\* header of its recommendations and the recommendations
section_lines(section, nmetrics, item, data) ==
    << <<section, "header", 0>>, <<section, "rule", 0>> >>
    \o [i \in 1..nmetrics |-> <<section, item, i>>]
    \o << <<section, "blank", 0>>, <<section, "recommendations_header", 0>> >>
    \o [i \in 1..data.recommendations |-> <<section, "recommendation", i>>]
    \o << <<section, "blank", 1>> >>

\* the efficiency section lists the scores under a line of their own, and at
\* most five of them
efficiency_lines(data) ==
    LET top == Min(data.efficiency_scores, SummaryTop) IN
    << <<"efficiency", "header", 0>>, <<"efficiency", "rule", 0>> >>
    \o (IF data.efficiency_scores > 0
        THEN << <<"efficiency", "top_header", 0>> >>
             \o [i \in 1..top |-> <<"efficiency", "top", i>>]
        ELSE <<>>)
    \o << <<"efficiency", "blank", 0>>, <<"efficiency", "recommendations_header", 0>> >>
    \o [i \in 1..data.recommendations |-> <<"efficiency", "recommendation", i>>]
    \o << <<"efficiency", "blank", 1>> >>

\* ReportGenerator._generate_text_report: report_lines
text_report(results) ==
    << <<"report", "title", 0>>, <<"report", "rule", 0>>,
       <<"report", "date", 0>>, <<"report", "blank", 0>> >>
    \o (IF has_key(results, "coverage_analysis")
        THEN LET coverage == get_item(results, "coverage_analysis") IN
             section_lines("coverage", coverage.metrics, "metric", coverage)
        ELSE <<>>)
    \o (IF has_key(results, "location_analysis")
        THEN efficiency_lines(get_item(results, "location_analysis")) ELSE <<>>)

\* ReportGenerator._generate_csv_report: csv_data is not empty
csv_has_data(results) ==
    \/ /\ has_key(results, "coverage_analysis")
       /\ get_item(results, "coverage_analysis").metrics > 0
    \/ /\ has_key(results, "location_analysis")
       /\ get_item(results, "location_analysis").efficiency_scores > 0

\* the recommendations of all analyses, in result order
RECURSIVE all_recommendations(_)
all_recommendations(results) ==
    IF results = <<>> THEN <<>>
    ELSE [i \in 1..Head(results)[2].recommendations |-> <<Head(results)[1], i>>]
         \o all_recommendations(Tail(results))

\* a slip: every recommendation is listed
executive_summary_all(results) == all_recommendations(results)

\* ReportGenerator.generate_executive_summary: the recommendations listed
executive_summary(results) ==
    LET all == all_recommendations(results) IN
    SubSeq(all, 1, Min(SummaryTop, Len(all)))

\* the error of an emitter: _generate_dashboard formats a template that holds
\* the braces of a style sheet, which str.format rejects; the other emitters
\* fail when their file cannot be written
emitter_error(format, failing) ==
    IF format = "dashboard" THEN "KeyError"
    ELSE IF format \in failing THEN "OSError"
    ELSE "no"

\* the emitters of generate_reports from the i-th on, after the files written
\* so far
RECURSIVE emit_from(_, _, _, _)
emit_from(results, failing, i, files) ==
    IF i > Len(Emitters)
    THEN [raised |-> "no", files |-> files, returned |-> Range(Emitters)]
    ELSE LET format == Emitters[i]
             error == emitter_error(format, failing)
             written == IF format = "csv" /\ ~csv_has_data(results)
                        THEN files ELSE files \cup {format}
         IN  IF error # "no"
             THEN [raised |-> error, files |-> files, returned |-> "None"]
             ELSE emit_from(results, failing, i + 1, written)

\* ReportGenerator.generate_reports
generate_reports(results, failing) == emit_from(results, failing, 1, {})

\* the data an analysis may hand to the reports
AnalysisData(analysis) ==
    [metrics : IF analysis = "coverage_analysis" THEN 0..MaxMetrics ELSE {0},
     efficiency_scores : IF analysis = "location_analysis" THEN 0..MaxMetrics ELSE {0},
     recommendations : 0..MaxRecs]

AnalysisNames == {"coverage_analysis", "location_analysis", "gap_analysis"}

\* analysis_results: some of the analyses, in any order, each with its data
ResultsOf(names) ==
    UNION { { r \in [1..Cardinality(S) -> UNION { {a} \X AnalysisData(a) : a \in S }] :
                { r[i][1] : i \in 1..Cardinality(S) } = S } : S \in SUBSET names }

InitReports ==
    /\ FilterIdle
    /\ ChildIdle
    /\ CitiesIdle
    /\ HistoryIdle
    /\ RetryIdle
    /\ PipelineIdle
    /\ JsonIdle
    /\ repResults \in ResultsOf(AnalysisNames)
    /\ repFiles = {}
    /\ repText = <<>>
    /\ repReturned = "None"
    /\ repRaised = "none"
    /\ repSummary = {}
    /\ ClassIdle
    /\ TableIdle
    /\ EffIdle
    /\ ClusterIdle
    /\ ModelIdle

\* a call of generate_reports(analysis_results); some of the files may fail
\* to be written
GenerateReports ==
    /\ repRaised = "none"
    /\ \E failing \in SUBSET {"json", "csv", "text"} :
         LET r == generate_reports(repResults, failing) IN
           /\ repFiles' = r.files
           /\ repText' = IF "text" \in r.files THEN text_report(repResults) ELSE <<>>
           /\ repReturned' = r.returned
           /\ repRaised' = r.raised
    /\ UNCHANGED <<repResults, repSummary, classVars, tableVars, effVars, clusterVars, modelVars, jsonVars, pipelineVars, retryVars, historyVars, cityVars, childVars, filterVars>>

\* a call of generate_executive_summary(analysis_results)
GenerateExecutiveSummary ==
    /\ repSummary = {}
    /\ repSummary' = {executive_summary(repResults)}
    /\ UNCHANGED <<repResults, repFiles, repText, repReturned, repRaised, classVars, tableVars, effVars, clusterVars, modelVars, jsonVars, pipelineVars, retryVars, historyVars, cityVars, childVars, filterVars>>

NextReports ==
    \/ GenerateReports
    \/ GenerateExecutiveSummary

SpecReports == InitReports /\ [][NextReports]_vars

-----------------------------------------------------------------------------
(* The structured report: write_json and read_json.  A Python object is      *)
(* [t, v] with its type t and its value v; the items of a dict are <<key,    *)
(* value>> pairs.  A JSON document is [j, v] alike.                          *)

StrObj(s) == [t |-> "str", v |-> s]
IntObj(n) == [t |-> "int", v |-> n]
FloatObj(n) == [t |-> "float", v |-> n]
NanObj == [t |-> "float", v |-> "nan"]
NumpyInt64Obj(n) == [t |-> "numpy.int64", v |-> n]
EstimatorObj(n) == [t |-> "estimator", v |-> n]
ListObj(s) == [t |-> "list", v |-> s]
DictObj(items) == [t |-> "dict", v |-> items]

\* str(key) of an integer key
IntStr(n) == <<"0", "1", "2", "3">>[n + 1]

\* the JSON encoder has an encoding for the object: numpy integers and
\* estimators have none
RECURSIVE json_serializable(_)
json_serializable(o) ==
    CASE o.t \in {"str", "int", "float"} -> TRUE
      [] o.t = "list" -> \A i \in 1..Len(o.v) : json_serializable(o.v[i])
      [] o.t = "dict" -> \A i \in 1..Len(o.v) : json_serializable(o.v[i][2])
      [] OTHER -> FALSE

\* json.dump(data, f, ensure_ascii=False): the document written; a key that is
\* an integer is written as its decimal string, a float keeps its point
RECURSIVE json_dump(_)
json_dump(o) ==
    CASE o.t = "str" -> [j |-> "string", v |-> o.v]
      [] o.t = "int" -> [j |-> "integer", v |-> o.v]
      [] o.t = "float" -> [j |-> "real", v |-> o.v]
      [] o.t = "list" -> [j |-> "array", v |-> [i \in 1..Len(o.v) |-> json_dump(o.v[i])]]
      [] o.t = "dict" ->
            [j |-> "object",
             v |-> [i \in 1..Len(o.v) |->
                     << IF o.v[i][1].t = "int" THEN IntStr(o.v[i][1].v) ELSE o.v[i][1].v,
                        json_dump(o.v[i][2]) >>]]

\* json.load(f): the object a document is read as
RECURSIVE json_load(_)
json_load(d) ==
    CASE d.j = "string" -> StrObj(d.v)
      [] d.j = "integer" -> IntObj(d.v)
      [] d.j = "real" -> [t |-> "float", v |-> d.v]
      [] d.j = "array" -> ListObj([i \in 1..Len(d.v) |-> json_load(d.v[i])])
      [] d.j = "object" ->
            DictObj([i \in 1..Len(d.v) |-> << StrObj(d.v[i][1]), json_load(d.v[i][2]) >>])

\* a file json.dump left in the middle of the document
Truncated == [j |-> "truncated", v |-> <<>>]

\* the results of analyze_efficiency: {} or scores, one of them without bucket
EfficiencyResults ==
    { DictObj(<<>>) } \cup
    { DictObj(<< <<StrObj("efficiency_scores"),
                ListObj(<< DictObj(<< <<StrObj("name"), StrObj("T2")>>,
                                <<StrObj("efficiency_score"), FloatObj(score)>>,
                                <<StrObj("efficiency_category"),
                                  IF pd_cut(score) = "NaN" THEN NanObj ELSE StrObj(pd_cut(score))>> >>) >>)>>,
              <<StrObj("recommendations"), ListObj(<<>>)>> >>) : score \in {0, 10, 15, 20, 25} }

\* the results of analyze_coverage: empty metrics or counts and a density
CoverageResults ==
    { DictObj(<< <<StrObj("metrics"), DictObj(<<>>)>> >>),
      DictObj(<< <<StrObj("metrics"),
                DictObj(<< <<StrObj("total_locations"), IntObj(2)>>,
                        <<StrObj("Moskva_avg_distance_km"), FloatObj(1)>>,
                        <<StrObj("Moskva_coverage_density"), StrObj("High")>> >>)>>,
              <<StrObj("recommendations"), ListObj(<< StrObj("expand") >>)>> >>) }

\* the results of perform_clustering: {} or the two clusterings with the
\* interpretation of the clusters 0, 1, 2 and the count of noise points
ClusteringResults ==
    { DictObj(<<>>) } \cup
    { DictObj(<< <<StrObj("kmeans"), DictObj(<< <<StrObj("n_clusters"), IntObj(OptimalClusters)>>,
                                       <<StrObj("labels"), ListObj(<< IntObj(0), IntObj(l) >>)>> >>)>>,
              <<StrObj("dbscan"), DictObj(<< <<StrObj("n_clusters"), IntObj(1)>>,
                                       <<StrObj("noise_points"), NumpyInt64Obj(0)>> >>)>>,
              <<StrObj("interpretation"),
                DictObj(<< <<IntObj(0), DictObj(<< <<StrObj("size"), IntObj(1)>> >>)>>,
                        <<IntObj(l), DictObj(<< <<StrObj("size"), IntObj(1)>> >>)>> >>)>> >>) : l \in {1, 2} }

\* the results of build_models: {} or the fitted families and the best one
ModelResults ==
    { DictObj(<<>>) } \cup
    { DictObj(<< <<StrObj("model_results"),
                DictObj(<< <<StrObj(ModelNames[i]), DictObj(<< <<StrObj("model"), EstimatorObj(ModelNames[i])>>,
                                                     <<StrObj("r2"), FloatObj(1)>> >>)>> >>)>>,
              <<StrObj("best_model"), StrObj(ModelNames[i])>> >>) : i \in 1..Len(ModelNames) }

\* an AnalysisResult: the results of some of the stages under their names
StageResults ==
    [stage \in {"coverage_analysis", "location_analysis", "clustering", "modeling"} |->
        CASE stage = "coverage_analysis" -> CoverageResults
          [] stage = "location_analysis" -> EfficiencyResults
          [] stage = "clustering" -> ClusteringResults
          [] stage = "modeling" -> ModelResults]

RECURSIVE AnalysisResultsFrom(_)
AnalysisResultsFrom(names) ==
    IF names = <<>> THEN { <<>> }
    ELSE LET rest == AnalysisResultsFrom(Tail(names)) IN
         rest \cup { << <<StrObj(Head(names)), r>> >> \o items :
                       r \in StageResults[Head(names)], items \in rest }

AnalysisResults ==
    { DictObj(items) : items \in
        AnalysisResultsFrom(<<"coverage_analysis", "location_analysis", "clustering", "modeling">>) }

InitJson ==
    /\ FilterIdle
    /\ ChildIdle
    /\ CitiesIdle
    /\ HistoryIdle
    /\ RetryIdle
    /\ PipelineIdle
    /\ jsObject \in AnalysisResults
    /\ jsFile = {}
    /\ jsRaised = "none"
    /\ jsRead = {}
    /\ ClassIdle
    /\ TableIdle
    /\ EffIdle
    /\ ClusterIdle
    /\ ModelIdle
    /\ ReportIdle

\* _generate_json_report: write_json(analysis_results, path)
WriteJson ==
    /\ jsRaised = "none"
    /\ IF json_serializable(jsObject)
       THEN jsFile' = {json_dump(jsObject)} /\ jsRaised' = "no"
       ELSE jsFile' = {Truncated} /\ jsRaised' = "TypeError"
    /\ UNCHANGED <<jsObject, jsRead, classVars, tableVars, effVars, clusterVars, modelVars, reportVars, pipelineVars, retryVars, historyVars, cityVars, childVars, filterVars>>

\* read_json(path) on the file written
ReadJson ==
    /\ jsFile # {}
    /\ jsRead = {}
    /\ jsRaised \in {"no", "TypeError"}
    /\ IF jsFile = {Truncated}
       THEN jsRead' = jsRead /\ jsRaised' = "JSONDecodeError"
       ELSE jsRead' = {json_load(Value(jsFile))} /\ jsRaised' = jsRaised
    /\ UNCHANGED <<jsObject, jsFile, classVars, tableVars, effVars, clusterVars, modelVars, reportVars, pipelineVars, retryVars, historyVars, cityVars, childVars, filterVars>>

NextJson ==
    \/ WriteJson
    \/ ReadJson

SpecJson == InitJson /\ [][NextJson]_vars

-----------------------------------------------------------------------------
(* The pipeline: main of run_analysis.py.  A log message is [level, text,    *)
(* stage, cause]; the traceback names the call that raised and the error.    *)

\* sys.exit(1)
ExitOnError == 1

\* the errors a stage may raise
Causes == {"ValueError", "KeyError"}

\* logger.info of the banner a stage starts with
banner(stage) == [level |-> "info", text |-> "banner", stage |-> stage, cause |-> "-"]

\* logger.info(<success message>), run_analysis.py:94
success_message == [level |-> "info", text |-> "success", stage |-> "-", cause |-> "-"]

\* a slip: the handler logs and lets the process end as after a success
except_handler_exit0(log, stage, cause) ==
    [log |-> log \o << [level |-> "error", text |-> "analysis_error", stage |-> "-", cause |-> cause],
                       [level |-> "error", text |-> "traceback", stage |-> stage, cause |-> cause] >>,
     exit |-> 0]

\* the except branch of main: the error message with str(e), the traceback of
\* the call that raised, sys.exit(1)
except_handler(log, stage, cause) ==
    [log |-> log \o << [level |-> "error", text |-> "analysis_error", stage |-> "-", cause |-> cause],
                       [level |-> "error", text |-> "traceback", stage |-> stage, cause |-> cause] >>,
     exit |-> ExitOnError]

\* the stage after the data processing
after_processing(skip_analysis) == IF skip_analysis THEN "success" ELSE "coverage"

\* the errors of a call of the stage: report_generator.generate_reports is
\* called without its parameter output_dir, the other stages fail on their data
stage_errors(stage) == IF stage = "reports" THEN {"TypeError"} ELSE Causes

\* the stage either completes or raises
stage_outcomes(stage) ==
    (IF stage = "reports" THEN {} ELSE {"ok"}) \cup stage_errors(stage)

InitPipeline ==
    /\ FilterIdle
    /\ ChildIdle
    /\ CitiesIdle
    /\ HistoryIdle
    /\ RetryIdle
    /\ pipSkipCollection \in BOOLEAN
    /\ pipSkipAnalysis \in BOOLEAN
    /\ pipTypes \in 0..MaxTypes
    /\ pipPc = IF ~pipSkipCollection /\ pipTypes > 0 THEN "collection" ELSE "processing"
    /\ pipRan = <<>>
    /\ pipLog = <<>>
    /\ pipReports = 0
    /\ pipRaised = <<>>
    /\ pipExit = 0 - 1
    /\ ClassIdle
    /\ TableIdle
    /\ EffIdle
    /\ ClusterIdle
    /\ ModelIdle
    /\ ReportIdle
    /\ JsonIdle

\* one stage of main: its banner is logged and its call is made; an error of
\* the call goes to the except branch, which ends the process
PipelineStage(stage, next) ==
    /\ pipPc = stage
    /\ pipRan' = Append(pipRan, stage)
    /\ \E outcome \in stage_outcomes(stage) :
         IF outcome = "ok"
         THEN /\ pipLog' = Append(pipLog, banner(stage))
              /\ pipPc' = next
              /\ UNCHANGED <<pipRaised, pipExit>>
         ELSE LET h == except_handler(Append(pipLog, banner(stage)), stage, outcome) IN
              /\ pipLog' = h.log
              /\ pipExit' = h.exit
              /\ pipRaised' = <<stage, outcome>>
              /\ pipPc' = "exited"

\* stage 1, for one organisation type: collect_links and parse_data
PipelineCollect ==
    /\ pipTypes > 0
    /\ PipelineStage("collection", IF pipTypes > 1 THEN "collection" ELSE "processing")
    /\ pipTypes' = IF pipPc' = "exited" THEN pipTypes ELSE pipTypes - 1
    /\ UNCHANGED <<pipSkipCollection, pipSkipAnalysis, pipReports, classVars, tableVars, effVars, clusterVars, modelVars, reportVars, jsonVars, retryVars, historyVars, cityVars, childVars, filterVars>>

\* stage 2: combine_datasets
PipelineProcess ==
    /\ PipelineStage("processing", after_processing(pipSkipAnalysis))
    /\ UNCHANGED <<pipSkipCollection, pipSkipAnalysis, pipTypes, pipReports, classVars, tableVars, effVars, clusterVars, modelVars, reportVars, jsonVars, retryVars, historyVars, cityVars, childVars, filterVars>>

\* stage 3: analyze_coverage
PipelineCoverage ==
    /\ PipelineStage("coverage", "efficiency")
    /\ UNCHANGED <<pipSkipCollection, pipSkipAnalysis, pipTypes, pipReports, classVars, tableVars, effVars, clusterVars, modelVars, reportVars, jsonVars, retryVars, historyVars, cityVars, childVars, filterVars>>

\* stage 3: analyze_efficiency
PipelineEfficiency ==
    /\ PipelineStage("efficiency", "reports")
    /\ UNCHANGED <<pipSkipCollection, pipSkipAnalysis, pipTypes, pipReports, classVars, tableVars, effVars, clusterVars, modelVars, reportVars, jsonVars, retryVars, historyVars, cityVars, childVars, filterVars>>

\* stage 4: generate_reports
PipelineReports ==
    /\ PipelineStage("reports", "success")
    /\ pipReports' = IF pipPc' = "exited" THEN pipReports ELSE pipReports + 1
    /\ UNCHANGED <<pipSkipCollection, pipSkipAnalysis, pipTypes, classVars, tableVars, effVars, clusterVars, modelVars, reportVars, jsonVars, retryVars, historyVars, cityVars, childVars, filterVars>>

\* the end of the try block: the success message, and main returns
PipelineSuccess ==
    /\ pipPc = "success"
    /\ pipLog' = Append(pipLog, success_message)
    /\ pipExit' = 0
    /\ pipPc' = "exited"
    /\ UNCHANGED <<pipSkipCollection, pipSkipAnalysis, pipTypes, pipRan, pipReports, pipRaised, classVars, tableVars, effVars, clusterVars, modelVars, reportVars, jsonVars, retryVars, historyVars, cityVars, childVars, filterVars>>

NextPipeline ==
    \/ PipelineCollect
    \/ PipelineProcess
    \/ PipelineCoverage
    \/ PipelineEfficiency
    \/ PipelineReports
    \/ PipelineSuccess

SpecPipeline == InitPipeline /\ [][NextPipeline]_vars

-----------------------------------------------------------------------------
(* The analyses as functions of the caller's table: what each of them does   *)
(* to the frame it is handed.                                                *)

\* numeric_features of _prepare_clustering_data, feature_columns of
\* _prepare_features
NumericFeatures ==
    {"rating", "reviews_count", "photos_count", "nearby_shopping_centers_count",
     "nearby_cafes_count", "nearby_restaurants_count", "nearby_banks_count",
     "nearby_metro_count", "public_transport_stops_count",
     "anchor_tenants_count", "walkability_score"}

\* a slip: the cluster column written into the frame of the caller, no copy
interpret_clusters_no_copy(df, labels) ==
    IF Len(labels) = 0 \/ Len(df.rows) # Len(labels)
    THEN [ret |-> EmptyMap, caller_df |-> df]
    ELSE LET local == with_column(df, "cluster", labels) IN
         [ret |-> [c \in Range(labels) |->
                      Cardinality({ i \in 1..Len(local.rows) : local.rows[i].cluster = c })],
          caller_df |-> local]

\* DataClustering._interpret_clusters: [ret, caller_df]; ret is the size of
\* each cluster, taken from a copy of df with the cluster column
interpret_clusters(df, labels) ==
    IF Len(labels) = 0 \/ Len(df.rows) # Len(labels)
    THEN [ret |-> EmptyMap, caller_df |-> df]
    ELSE LET local == with_column(df, "cluster", labels) IN
         [ret |-> [c \in Range(labels) |->
                      Cardinality({ i \in 1..Len(local.rows) : local.rows[i].cluster = c })],
          caller_df |-> df]

\* DataClustering.perform_clustering: [raised, ret, caller_df]; the k-means
\* labels are those of the partition that starts with the label first
perform_clustering(df, first) ==
    LET features == NumericFeatures \cap df.columns
        X == prepare_clustering_data(Len(df.rows), Cardinality(features))
    IN  IF X.raised # "no"
        THEN [raised |-> X.raised, ret |-> EmptyMap, caller_df |-> df]
        ELSE IF insufficient_data(X.len, MinClusteringRows)
        THEN [raised |-> "no", ret |-> EmptyMap, caller_df |-> df]
        ELSE IF Cardinality(features) < PcaComponents
        THEN [raised |-> "ValueError", ret |-> EmptyMap, caller_df |-> df]
        ELSE LET n_clusters == kmeans_n_clusters(0)
                 labels == [i \in 1..X.len |-> (first + i) % n_clusters]
                 interpretation == interpret_clusters(df, labels)
             IN  [raised |-> "no", ret |-> interpretation.ret,
                  caller_df |-> interpretation.caller_df]

\* LocationAnalyzer.analyze_efficiency: [raised, ret, cache, caller_df]; the
\* scores are written into tele2_df, a copy of the own-brand rows
analyze_efficiency(df, cache, score) ==
    IF "name" \notin df.columns
    THEN [raised |-> "KeyError", ret |-> EmptyMap, cache |-> cache, caller_df |-> df]
    ELSE
      LET tele2_df == filter_tele2_locations(df) IN
      IF insufficient_data(Len(tele2_df.rows), MinEfficiencyRows)
      THEN [raised |-> "no", ret |-> EmptyMap, cache |-> cache, caller_df |-> df]
      ELSE IF ~({"rating", "reviews_count"} \subseteq df.columns)
      THEN [raised |-> "KeyError", ret |-> EmptyMap, cache |-> cache, caller_df |-> df]
      ELSE
        LET m == train_or_load_model(cache) IN
        IF predict_raises(m.model)
        THEN [raised |-> "ValueError", ret |-> EmptyMap, cache |-> m.cache, caller_df |-> df]
        ELSE
          LET scored == with_column(tele2_df, "efficiency_score",
                            [i \in 1..Len(tele2_df.rows) |-> score])
              cut == with_column(scored, "efficiency_category",
                            [i \in 1..Len(scored.rows) |-> pd_cut(score)])
          IN  IF "address" \notin cut.columns
              THEN [raised |-> "KeyError", ret |-> EmptyMap, cache |-> m.cache,
                    caller_df |-> df]
              ELSE [raised |-> "no",
                    ret |-> [i \in 1..Len(cut.rows) |->
                               [address |-> cut.rows[i].address,
                                efficiency_score |-> cut.rows[i].efficiency_score,
                                efficiency_category |-> cut.rows[i].efficiency_category]],
                    cache |-> m.cache, caller_df |-> df]

\* PredictiveModeling.build_models: [raised, ret, caller_df]
build_models(df, r2) ==
    IF "name" \notin df.columns
    THEN [raised |-> "KeyError", ret |-> EmptyMap, caller_df |-> df]
    ELSE
      LET tele2_df == filter_tele2_locations(df) IN
      IF insufficient_data(Len(tele2_df.rows), MinModelRows)
      THEN [raised |-> "no", ret |-> EmptyMap, caller_df |-> df]
      ELSE IF ~({"rating", "reviews_count"} \subseteq df.columns)
      THEN [raised |-> "KeyError", ret |-> EmptyMap, caller_df |-> df]
      ELSE [raised |-> "no", ret |-> [best_model |-> select_best_model(r2)],
            caller_df |-> df]

\* the row of the analyses' tables: the gap analysis' columns and reviews_count
AnalysisRow(n, co) ==
    ("reviews_count" :> {5}) @@ GapRow(n, Moskva, co, infra_rich)

AnalysisColumns == GapColumns \cup {"reviews_count"}

\* the rows of a table: k own-brand rows with coordinates, n own-brand rows
\* without, m competitor rows beyond the competitive radius
AnalysisRows(k, n, m) ==
    LET rs == [i \in 1..k |-> AnalysisRow(name_t2, At(i - 1))]
              \o Copies(AnalysisRow(name_tele2, NoCoords), n)
              \o Copies(AnalysisRow(name_mts, At(CompetitiveRadius + 1)), m)
    IN  [i \in 1..Len(rs) |-> [rs[i] EXCEPT !.address = i]]

\* small tables, with coordinates on most rows, and tables of at least the
\* minimum of own-brand rows of the efficiency analysis and of the models,
\* with coordinates on the competitor's row only; each with all columns,
\* without reviews_count, or with the required columns only
AnalysisTables ==
    { drop_columns([columns |-> AnalysisColumns, rows |-> rs], cols) :
        rs \in { AnalysisRows(k, n, m) : k \in 1..2, n \in 0..1, m \in 0..1 }
               \cup { AnalysisRows(0, n, m) :
                         n \in {MinEfficiencyRows, MinModelRows}, m \in 0..1 },
        cols \in { {}, {"reviews_count"}, AnalysisColumns \ RequiredColumns } }

InitAnalyses ==
    /\ FilterIdle
    /\ ChildIdle
    /\ CitiesIdle
    /\ HistoryIdle
    /\ RetryIdle
    /\ PipelineIdle
    /\ JsonIdle
    /\ ReportIdle
    /\ ModelIdle
    /\ ClusterIdle
    /\ ClassIdle
    /\ table \in AnalysisTables
    /\ table0 = table
    /\ runs = <<>>
    /\ population_data = load_population_data
    /\ effCache \in CacheStates
    /\ effPc = "idle"
    /\ effRows = 0
    /\ effIdx = 0
    /\ effScore = 0
    /\ effCategory = "NaN"
    /\ effResult = "none"
    /\ effOps = <<>>
    /\ effAttrs = {PlainRow}
    /\ effRow = PlainRow
    /\ effRec = <<>>

\* analyze_coverage(table), at any place of a sequence of analyses
RunCoverage ==
    /\ Len(runs) < MaxAnalyses
    /\ LET r == analyze_coverage(table) IN
         /\ runs' = Append(runs, [op |-> "analyze_coverage", raised |-> r.raised])
         /\ table' = r.caller_df
    /\ UNCHANGED <<table0, population_data, classVars, effVars, clusterVars, modelVars, reportVars, jsonVars, pipelineVars, retryVars, historyVars, cityVars, childVars, filterVars>>

\* analyze_gaps(table), at any place of a sequence of analyses
RunGaps ==
    /\ Len(runs) < MaxAnalyses
    /\ LET r == analyze_gaps(population_data, table) IN
         /\ runs' = Append(runs, [op |-> "analyze_gaps", raised |-> r.raised])
         /\ table' = r.caller_df
    /\ UNCHANGED <<table0, population_data, classVars, effVars, clusterVars, modelVars, reportVars, jsonVars, pipelineVars, retryVars, historyVars, cityVars, childVars, filterVars>>

\* perform_clustering(table)
RunClustering ==
    /\ Len(runs) < MaxAnalyses
    /\ \E first \in kmeans_labels(OptimalClusters) :
         LET r == perform_clustering(table, first) IN
           /\ runs' = Append(runs, [op |-> "perform_clustering", raised |-> r.raised])
           /\ table' = r.caller_df
    /\ UNCHANGED <<table0, population_data, classVars, effVars, clusterVars, modelVars, reportVars, jsonVars, pipelineVars, retryVars, historyVars, cityVars, childVars, filterVars>>

\* analyze_efficiency(table), with the model cache as the run before left it;
\* the model predicts a score without a bucket, or a score of the lowest bucket
RunEfficiency ==
    /\ Len(runs) < MaxAnalyses
    /\ \E score \in {cut_bins[1], cut_bins[2]} :
         LET r == analyze_efficiency(table, effCache, score) IN
           /\ runs' = Append(runs, [op |-> "analyze_efficiency", raised |-> r.raised])
           /\ table' = r.caller_df
           /\ effCache' = r.cache
    /\ UNCHANGED <<table0, population_data, effPc, effRows, effIdx, effScore, effCategory, effResult, effOps, effAttrs, effRow, effRec, classVars, clusterVars, modelVars, reportVars, jsonVars, pipelineVars, retryVars, historyVars, cityVars, childVars, filterVars>>

\* build_models(table)
RunModels ==
    /\ Len(runs) < MaxAnalyses
    /\ \E v \in R2Values :
         LET r == build_models(table, [i \in 1..Len(ModelNames) |-> v]) IN
           /\ runs' = Append(runs, [op |-> "build_models", raised |-> r.raised])
           /\ table' = r.caller_df
    /\ UNCHANGED <<table0, population_data, classVars, effVars, clusterVars, modelVars, reportVars, jsonVars, pipelineVars, retryVars, historyVars, cityVars, childVars, filterVars>>

NextAnalyses ==
    \/ RunCoverage
    \/ RunGaps
    \/ RunClustering
    \/ RunEfficiency
    \/ RunModels

SpecAnalyses == InitAnalyses /\ [][NextAnalyses]_vars

-----------------------------------------------------------------------------
(* retry_on_error: one call of the wrapper of a decorated function.  Times   *)
(* are whole seconds.                                                        *)

\* what an invocation of func may do: return, raise an Exception, or raise an
\* exception that is no Exception (KeyboardInterrupt, SystemExit)
FuncOutcomes == {"ok", "Exception", "BaseException"}

\* a slip of the test: the last failure is not seen as the last
retries_exhausted_gt(retries, max_retries) == retries > max_retries

\* if retries >= max_retries: raise
retries_exhausted(retries, max_retries) == retries >= max_retries

\* a slip of the backoff: the factor added to the delay
next_delay_add(current_delay, backoff) == current_delay + backoff

\* current_delay *= backoff
next_delay(current_delay, backoff) == current_delay * backoff

\* the invocations of func made so far
Invocations == SelectSeq(rtTrace, LAMBDA e : e.t = "invoke")

InitRetry ==
    /\ FilterIdle
    /\ ChildIdle
    /\ CitiesIdle
    /\ HistoryIdle
    /\ PipelineIdle
    /\ JsonIdle
    /\ ReportIdle
    /\ ModelIdle
    /\ ClusterIdle
    /\ ClassIdle
    /\ TableIdle
    /\ EffIdle
    /\ rtMaxRetries \in 0..MaxRetries
    /\ rtDelay \in 0..MaxDelay
    /\ rtBackoff \in 1..MaxBackoff
    /\ rtPc = "idle"
    /\ rtRetries = 0
    /\ rtCurrentDelay = 0
    /\ rtTrace = <<>>
    /\ rtResult = [t |-> "none", k |-> 0]

\* wrapper(*args, **kwargs) is entered: the two assignments and the first test
\* of the loop; a loop that is not entered ends in return None
RetryCall ==
    /\ rtPc = "idle"
    /\ rtRetries' = 0
    /\ rtCurrentDelay' = rtDelay
    /\ IF 0 < rtMaxRetries
       THEN rtPc' = "loop" /\ rtResult' = rtResult
       ELSE rtPc' = "returned" /\ rtResult' = [t |-> "None", k |-> 0]
    /\ UNCHANGED <<rtMaxRetries, rtDelay, rtBackoff, rtTrace, classVars, tableVars, effVars, clusterVars, modelVars, reportVars, jsonVars, pipelineVars, historyVars, cityVars, childVars, filterVars>>

\* one turn of the loop: func is invoked; its k-th invocation returns the
\* value k or raises the exception k
RetryAttempt ==
    /\ rtPc = "loop"
    /\ \E outcome \in FuncOutcomes :
         LET k == Len(Invocations) + 1
             invoked == Append(rtTrace, [t |-> "invoke", outcome |-> outcome, secs |-> 0])
         IN  IF outcome = "ok"
             THEN /\ rtTrace' = invoked
                  /\ rtPc' = "returned"
                  /\ rtResult' = [t |-> "value", k |-> k]
                  /\ UNCHANGED <<rtRetries, rtCurrentDelay>>
             ELSE IF outcome = "BaseException"
             THEN /\ rtTrace' = invoked
                  /\ rtPc' = "raised"
                  /\ rtResult' = [t |-> "exception", k |-> k]
                  /\ UNCHANGED <<rtRetries, rtCurrentDelay>>
             ELSE /\ rtRetries' = rtRetries + 1
                  /\ IF retries_exhausted(rtRetries', rtMaxRetries)
                     THEN /\ rtTrace' = invoked
                          /\ rtPc' = "raised"
                          /\ rtResult' = [t |-> "exception", k |-> k]
                          /\ UNCHANGED rtCurrentDelay
                     ELSE /\ rtTrace' = Append(invoked,
                                 [t |-> "sleep", outcome |-> "slept", secs |-> rtCurrentDelay])
                          /\ rtCurrentDelay' = next_delay(rtCurrentDelay, rtBackoff)
                          /\ IF rtRetries' < rtMaxRetries
                             THEN rtPc' = "loop" /\ rtResult' = rtResult
                             ELSE rtPc' = "returned" /\ rtResult' = [t |-> "None", k |-> 0]
    /\ UNCHANGED <<rtMaxRetries, rtDelay, rtBackoff, classVars, tableVars, effVars, clusterVars, modelVars, reportVars, jsonVars, pipelineVars, historyVars, cityVars, childVars, filterVars>>

NextRetry == RetryCall \/ RetryAttempt

SpecRetry == InitRetry /\ [][NextRetry]_vars

-----------------------------------------------------------------------------
(* analyze_efficiency called again and again with one configuration, that    *)
(* is on one model_path, on a table that may differ from call to call.       *)

\* the artifact at model_path as the next table finds it: a model that is
\* there was fitted on the next table's columns or on others
cache_for_next_table(cache) ==
    IF cache \in {"compatible", "incompatible"}
    THEN {"compatible", "incompatible"}
    ELSE {cache}

InitCacheRuns ==
    /\ FilterIdle
    /\ ChildIdle
    /\ CitiesIdle
    /\ RetryIdle
    /\ PipelineIdle
    /\ JsonIdle
    /\ ReportIdle
    /\ ModelIdle
    /\ ClusterIdle
    /\ ClassIdle
    /\ TableIdle
    /\ effPc = "idle"
    /\ effRows \in (MinEfficiencyRows - 1)..MinEfficiencyRows
    /\ effIdx = 0
    /\ effScore = 0
    /\ effCategory = "NaN"
    /\ effResult = "none"
    /\ effCache \in CacheStates
    /\ effOps = <<>>
    /\ effAttrs = {PlainRow}
    /\ effRow = PlainRow
    /\ effRec = <<>>
    /\ effRuns = <<>>

\* the call has ended; analyze_efficiency is called again, on another table
EfficiencyNextRun ==
    /\ effPc = "done"
    /\ Len(effRuns) + 1 < MaxEffRuns
    /\ effRuns' = Append(effRuns, [rows |-> effRows, ops |-> effOps, result |-> effResult])
    /\ effPc' = "idle"
    /\ effRows' \in (MinEfficiencyRows - 1)..MinEfficiencyRows
    /\ effCache' \in cache_for_next_table(effCache)
    /\ effIdx' = 0
    /\ effScore' = 0
    /\ effCategory' = "NaN"
    /\ effResult' = "none"
    /\ effOps' = <<>>
    /\ effRow' = PlainRow
    /\ effRec' = <<>>
    /\ UNCHANGED <<effAttrs, classVars, tableVars, clusterVars, modelVars, reportVars, jsonVars, pipelineVars, retryVars, cityVars, childVars, filterVars>>

NextCacheRuns == NextEfficiency \/ EfficiencyNextRun

SpecCacheRuns == InitCacheRuns /\ [][NextCacheRuns]_vars

-----------------------------------------------------------------------------
(* run_all_cities.main: the loop over CITIES. *)

\* time.sleep(15)
PauseSeconds == 15

\* the cities a configuration may name
CityNames == {Moskva, Kazan, Tver}

\* CITIES: a list of up to MaxCities cities, each named once
Configurations ==
    { cs \in UNION { [1..n -> CityNames] : n \in 0..MaxCities } :
         \A i, j \in 1..Len(cs) : cs[i] = cs[j] => i = j }

\* how the analysis of one city may end: the child exits with status 0, it
\* exits with another status, or starting or reading it raises an Exception
CityOutcomes ==
    { [raised |-> FALSE, return_code |-> 0],
      [raised |-> FALSE, return_code |-> ExitOnError],
      [raised |-> TRUE, return_code |-> 0] }

\* run_analysis_for_city: return return_code == 0, and False from the handler
run_analysis_for_city(outcome) ==
    IF outcome.raised THEN FALSE ELSE outcome.return_code = 0

\* a slip of the test: a pause after the last city as well
pause_due_le(i, n) == i <= n

\* if i < len(CITIES): time.sleep(15)
pause_due(i, n) == i < n

InitCities ==
    /\ FilterIdle
    /\ ChildIdle
    /\ HistoryIdle
    /\ RetryIdle
    /\ PipelineIdle
    /\ JsonIdle
    /\ ReportIdle
    /\ ModelIdle
    /\ ClusterIdle
    /\ ClassIdle
    /\ TableIdle
    /\ EffIdle
    /\ rcCities \in Configurations
    /\ rcIdx = 0
    /\ rcPc = "loop"
    /\ rcSuccessful = <<>>
    /\ rcFailed = <<>>
    /\ rcTrace = <<>>

\* one turn of the loop: the city is analysed, listed, and a pause follows
RunCity ==
    /\ rcPc = "loop"
    /\ rcIdx < Len(rcCities)
    /\ \E outcome \in CityOutcomes :
         LET i == rcIdx + 1
             city == rcCities[i]
             success == run_analysis_for_city(outcome)
             processed == Append(rcTrace, [t |-> "city", city |-> city, secs |-> 0])
         IN  /\ rcIdx' = i
             /\ rcSuccessful' = IF success THEN Append(rcSuccessful, city) ELSE rcSuccessful
             /\ rcFailed' = IF success THEN rcFailed ELSE Append(rcFailed, city)
             /\ rcTrace' = IF pause_due(i, Len(rcCities))
                           THEN Append(processed, [t |-> "sleep", city |-> city,
                                                   secs |-> PauseSeconds])
                           ELSE processed
    /\ UNCHANGED <<rcCities, rcPc, classVars, tableVars, effVars, clusterVars, modelVars, reportVars, jsonVars, pipelineVars, retryVars, historyVars, childVars, filterVars>>

\* the loop is over: the totals are printed and main returns
MainFinish ==
    /\ rcPc = "loop"
    /\ rcIdx = Len(rcCities)
    /\ rcPc' = "done"
    /\ UNCHANGED <<rcCities, rcIdx, rcSuccessful, rcFailed, rcTrace, classVars, tableVars, effVars, clusterVars, modelVars, reportVars, jsonVars, pipelineVars, retryVars, historyVars, childVars, filterVars>>

NextCities == RunCity \/ MainFinish

SpecCities == InitCities /\ [][NextCities]_vars

-----------------------------------------------------------------------------
(* run_analysis_for_city and its child process: the two pipes of             *)
(* subprocess.Popen(cmd, stdout=PIPE, stderr=PIPE).  A write to a full pipe  *)
(* blocks the child, a read from an empty pipe whose writer lives blocks the *)
(* parent.                                                                   *)

\* the programs of the child: the lines it writes, in order, to either stream
ChildPrograms == UNION { [1..n -> {"out", "err"}] : n \in 0..MaxChildWrites }

\* the pipe has room for a line
has_room(pipe) == pipe < PipeCapacity

InitChild ==
    /\ FilterIdle
    /\ CitiesIdle
    /\ HistoryIdle
    /\ RetryIdle
    /\ PipelineIdle
    /\ JsonIdle
    /\ ReportIdle
    /\ ModelIdle
    /\ ClusterIdle
    /\ ClassIdle
    /\ TableIdle
    /\ EffIdle
    /\ chProgram \in ChildPrograms
    /\ chCode \in {0, ExitOnError}
    /\ chState = "unborn"
    /\ pipeOut = 0
    /\ pipeErr = 0
    /\ parPc = "start"
    /\ parPrinted = 0
    /\ parResult = "none"

\* subprocess.Popen(...): the child is started, or Popen raises and the handler
\* returns False
ParentPopen ==
    /\ parPc = "start"
    /\ \/ /\ chState' = "running"
          /\ parPc' = "read_stdout"
          /\ parResult' = parResult
       \/ /\ chState' = chState
          /\ parPc' = "returned"
          /\ parResult' = "False"
    /\ UNCHANGED <<chProgram, chCode, pipeOut, pipeErr, parPrinted, classVars, tableVars, effVars, clusterVars, modelVars, reportVars, jsonVars, pipelineVars, retryVars, historyVars, cityVars, filterVars>>

\* the child writes its next line, when the pipe of that stream has room
ChildWrite ==
    /\ chState = "running"
    /\ chProgram # <<>>
    /\ IF Head(chProgram) = "out"
       THEN has_room(pipeOut) /\ pipeOut' = pipeOut + 1 /\ pipeErr' = pipeErr
       ELSE has_room(pipeErr) /\ pipeErr' = pipeErr + 1 /\ pipeOut' = pipeOut
    /\ chProgram' = Tail(chProgram)
    /\ UNCHANGED <<chCode, chState, parPc, parPrinted, parResult, classVars, tableVars, effVars, clusterVars, modelVars, reportVars, jsonVars, pipelineVars, retryVars, historyVars, cityVars, filterVars>>

\* the child has written everything: it exits, which closes its ends of the pipes
ChildExit ==
    /\ chState = "running"
    /\ chProgram = <<>>
    /\ chState' = "exited"
    /\ UNCHANGED <<chProgram, chCode, pipeOut, pipeErr, parPc, parPrinted, parResult, classVars, tableVars, effVars, clusterVars, modelVars, reportVars, jsonVars, pipelineVars, retryVars, historyVars, cityVars, filterVars>>

\* process.stdout.readline() returns a line, which is printed
ParentReadLine ==
    /\ parPc = "read_stdout"
    /\ pipeOut > 0
    /\ pipeOut' = pipeOut - 1
    /\ parPrinted' = parPrinted + 1
    /\ UNCHANGED <<chProgram, chCode, chState, pipeErr, parPc, parResult, classVars, tableVars, effVars, clusterVars, modelVars, reportVars, jsonVars, pipelineVars, retryVars, historyVars, cityVars, filterVars>>

\* readline() returns '' at the end of the child's stdout and poll() gives the
\* exit status: the loop is left; when the status is not 0 the failure is
\* printed and stderr is read to its end and printed; return_code == 0 is
\* returned
ParentReturn ==
    /\ parPc = "read_stdout"
    /\ pipeOut = 0
    /\ chState = "exited"
    /\ pipeErr' = IF chCode # 0 THEN 0 ELSE pipeErr
    /\ parPrinted' = IF chCode # 0 THEN parPrinted + 1 + pipeErr ELSE parPrinted
    /\ parPc' = "returned"
    /\ parResult' = IF chCode = 0 THEN "True" ELSE "False"
    /\ UNCHANGED <<chProgram, chCode, chState, pipeOut, classVars, tableVars, effVars, clusterVars, modelVars, reportVars, jsonVars, pipelineVars, retryVars, historyVars, cityVars, filterVars>>

NextChild ==
    \/ ParentPopen
    \/ ChildWrite
    \/ ChildExit
    \/ ParentReadLine
    \/ ParentReturn

SpecChild == InitChild /\ [][NextChild]_vars

-----------------------------------------------------------------------------
(* The own-brand filter and the classifier on one name. *)

\* the names of the classifier's runs, and names with a letter that
\* re.IGNORECASE takes for the Cyrillic te
FilterNames ==
    Names \cup { n \o f \o m : n, m \in NamesOf(1),
                               f \in { <<"cy_tall_t", "2">>, <<"cy_three_t", "2">>,
                                       <<"cy_tall_t">> } }

InitFilter ==
    /\ ChildIdle
    /\ CitiesIdle
    /\ HistoryIdle
    /\ RetryIdle
    /\ PipelineIdle
    /\ JsonIdle
    /\ ReportIdle
    /\ ModelIdle
    /\ ClusterIdle
    /\ name \in FilterNames
    /\ returned = {}
    /\ ncalls = 0
    /\ flSelected = {}
    /\ TableIdle
    /\ EffIdle

\* df[df['name'].str.contains('Tele2|T2', case=False, na=False)] on the row of
\* the name
FilterOwnBrand ==
    /\ flSelected = {}
    /\ flSelected' = { str_contains_tele2(name) }
    /\ UNCHANGED <<classVars, tableVars, effVars, clusterVars, modelVars, reportVars, jsonVars, pipelineVars, retryVars, historyVars, cityVars, childVars>>

NextFilter == CallGapIdentify \/ CallCompetitorIdentify \/ FilterOwnBrand

SpecFilter == InitFilter /\ [][NextFilter]_vars

-----------------------------------------------------------------------------
(* Claims on the operator classifier. *)

\* the characters a and b are equal up to case
SameLetter(a, b) ==
    \/ a = b
    \/ <<a, b>> \in CasePairs
    \/ <<b, a>> \in CasePairs

\* the text s has an occurrence of tok, case ignored
HasTokenIgnoringCase(s, tok) ==
    \E i \in 1..Len(s) :
        /\ i + Len(tok) - 1 <= Len(s)
        /\ \A k \in 1..Len(tok) : SameLetter(s[i + k - 1], tok[k])

HasOwnBrandToken(n) ==
    /\ n # NaN
    /\ \/ HasTokenIgnoringCase(n, tok_tele2)
       \/ HasTokenIgnoringCase(n, tok_t2)

HasCompetitorToken(n) ==
    /\ n # NaN
    /\ \E tok \in {tok_mts_cy, tok_mts, tok_beeline_cy, tok_beeline,
                   tok_megafon_cy, tok_megafon} : HasTokenIgnoringCase(n, tok)

\* C1: whatever the name, the calls of the classifier made so far (by either
\* analyzer) have all returned one and the same label of the five, and that
\* label is Tele2 whenever the name holds an own-brand token in any case, a
\* competitor token beside it or not.
C1_ClassifierTotalDeterministicOwnFirst ==
    ncalls > 0 =>
        /\ Cardinality(returned) = 1
        /\ returned \subseteq Labels
        /\ HasOwnBrandToken(name) => returned = {"Tele2"}

\* a name with an own-brand token and a competitor token has been classified
C1_Witness ==
    /\ ncalls = MaxCalls
    /\ HasOwnBrandToken(name)
    /\ HasCompetitorToken(name)
    /\ returned = {"Tele2"}


-----------------------------------------------------------------------------
(* Claims on the coverage metrics. *)

\* the calls of _calculate_density_metrics made so far
DensityRuns == { i \in 1..Len(runs) : runs[i].op = "density_metrics" }
\* the calls of analyze_coverage made so far
CoverageRuns == { i \in 1..Len(runs) : runs[i].op = "analyze_coverage" }

\* the cities a density result has an entry for
CitiesWithDensity(ret) == { k[1] : k \in { q \in DOMAIN ret : q[2] = "coverage_density" } }

OwnValidRows(t, c) ==
    { i \in 1..Len(t.rows) :
        /\ HasOwnBrandToken(t.rows[i].name)
        /\ t.rows[i].city = c
        /\ t.rows[i].latitude # {} /\ t.rows[i].longitude # {} }

\* the unordered pairs of a set of rows
UnorderedPairs(S) == { P \in SUBSET S : Cardinality(P) = 2 }

\* the distance between the two rows of an unordered pair
PairDistance(t, P) ==
    LET i == CHOOSE x \in P : TRUE
        j == CHOOSE y \in P : y # i
    IN  Abs(Value(t.rows[i].latitude) - Value(t.rows[j].latitude))

RECURSIVE SumPairDistances(_, _)
SumPairDistances(t, PS) ==
    IF PS = {} THEN 0
    ELSE LET P == CHOOSE Q \in PS : TRUE
         IN  PairDistance(t, P) + SumPairDistances(t, PS \ {P})

\* C8: a density result has the two entries of a city exactly when the city
\* has at least 2 own-brand rows with coordinates; the average is the sum of
\* the distances of the unordered pairs of those rows over their number; and
\* three rows whose mean is 1 km (2 steps) are labelled High.
C8_DensityEntries ==
    \A i \in DensityRuns :
        LET ret == runs[i].ret IN
        /\ \A key \in DOMAIN ret :
              /\ key[1] \in {Moskva, Kazan, Tver}
              /\ key[2] \in {"avg_distance_km", "coverage_density"}
        /\ \A c \in {Moskva, Kazan, Tver} :
              LET own == OwnValidRows(table0, c)
                  pairs == UnorderedPairs(own)
              IN  /\ (<<c, "avg_distance_km">> \in DOMAIN ret) <=> (Cardinality(own) >= 2)
                  /\ (<<c, "coverage_density">> \in DOMAIN ret) <=> (Cardinality(own) >= 2)
                  /\ Cardinality(own) >= 2 =>
                        ret[<<c, "avg_distance_km">>] =
                            <<SumPairDistances(table0, pairs), Cardinality(pairs)>>
                  /\ (Cardinality(own) = 3 /\ SumPairDistances(table0, pairs) = 2 * 3) =>
                        ret[<<c, "coverage_density">>] = "High"

\* three own-brand rows of Moscow with a mean distance of 1 km were measured
\* and the city is labelled High
C8_Witness ==
    \E i \in DensityRuns :
        /\ Cardinality(OwnValidRows(table0, Moskva)) = 3
        /\ SumPairDistances(table0, UnorderedPairs(OwnValidRows(table0, Moskva))) = 6
        /\ runs[i].ret[<<Moskva, "coverage_density">>] = "High"

\* the table has no own-brand row
NoOwnBrandRows(t) == \A i \in 1..Len(t.rows) : ~HasOwnBrandToken(t.rows[i].name)

\* C9 as stated: analyze_coverage on a table without own-brand rows does not
\* raise and returns an empty metrics mapping.
C9_NoOwnBrandNoRaise ==
    \A i \in CoverageRuns :
        NoOwnBrandRows(table0) =>
            /\ runs[i].raised = "no"
            /\ runs[i].ret.metrics = EmptyMap

\* C10: two runs of analyze_coverage in succession on one table end alike (the
\* same result, or the same error), and a run leaves the caller's table as it
\* was: the same columns and the same rows.
C10_CoverageIdempotent ==
    CoverageRuns # {} =>
        /\ table = table0
        /\ \A i, j \in CoverageRuns : runs[i] = runs[j]

\* analyze_coverage ran twice to completion on a table with own-brand rows, the
\* clustering of the coordinates included
C10_Witness ==
    /\ Len(runs) = 2
    /\ CoverageRuns = {1, 2}
    /\ runs[2].raised = "no"
    /\ ~NoOwnBrandRows(table0)
    /\ "gap_locations_count" \in DOMAIN runs[2].ret.gaps
    /\ runs[2].ret.metrics # EmptyMap

-----------------------------------------------------------------------------
(* Claims on the gap detector. *)

\* the calls of analyze_gaps made so far
GapRuns == { i \in 1..Len(runs) : runs[i].op = "analyze_gaps" }

\* row k of the table t has both coordinates
HasCoords(t, k) == t.rows[k].latitude # {} /\ t.rows[k].longitude # {}

\* the distance in steps of 500 m between rows k and j of the table t
RowDistance(t, k, j) ==
    Abs(Value(t.rows[k].latitude) - Value(t.rows[j].latitude))

\* an own-brand row of t with coordinates lies at most r steps from row k
OwnBrandWithin(t, k, r) ==
    \E j \in 1..Len(t.rows) :
        /\ HasOwnBrandToken(t.rows[j].name)
        /\ HasCoords(t, j)
        /\ RowDistance(t, k, j) <= r

\* an own-brand row of t with coordinates lies less than r steps from row k
OwnBrandNearerThan(t, k, r) ==
    \E j \in 1..Len(t.rows) :
        /\ HasOwnBrandToken(t.rows[j].name)
        /\ HasCoords(t, j)
        /\ RowDistance(t, k, j) < r

\* row k of t is a competitor's record with coordinates
CompetitorWithCoords(t, k) ==
    /\ identify_operator(t.rows[k].name) \in {"MTS", "Beeline", "MegaFon"}
    /\ HasCoords(t, k)

\* the gap list names the record of row k (the address of a row is its number)
Listed(gaps, k) == \E e \in 1..Len(gaps.gap_areas) : gaps.gap_areas[e].address = k

MeetsInfrastructureThreshold(t, k) ==
    /\ t.rows[k].nearby_shopping_centers_count # {}
    /\ Value(t.rows[k].nearby_shopping_centers_count) > 2
    /\ t.rows[k].nearby_metro_count # {}
    /\ Value(t.rows[k].nearby_metro_count) > 0
    /\ t.rows[k].anchor_tenants_count # {}
    /\ Value(t.rows[k].anchor_tenants_count) > 1

OwnBrandCount(t, c) ==
    Cardinality({ k \in 1..Len(t.rows) :
                    HasOwnBrandToken(t.rows[k].name) /\ t.rows[k].city = c })

\* C6: population_gaps has one entry for each city of the population
\* reference and for no other city; per_100k of a city is its number of
\* own-brand rows / population * 100000 (a quotient <<num, den>>); its
\* sufficiency is Insufficient exactly when per_100k < 2; a population of
\* 1,000,000 with 15 locations gives 1.5 and Insufficient.
C6_PopulationGaps ==
    \A i \in GapRuns :
        LET df == runs[i].df
            pg == runs[i].ret.population_gaps
        IN  /\ runs[i].raised = "no"
            /\ DOMAIN pg = { population_data[c][1] : c \in 1..Len(population_data) }
            /\ \A c \in 1..Len(population_data) :
                  LET city == population_data[c][1]
                      pop == population_data[c][2]
                      n == OwnBrandCount(df, city)
                  IN  /\ pg[city].locations = n
                      /\ pg[city].per_100k = <<n * 100000, pop>>
                      /\ pg[city].sufficiency \in {"Sufficient", "Insufficient"}
                      /\ (pg[city].sufficiency = "Insufficient") <=>
                             (pg[city].per_100k[1] < 2 * pg[city].per_100k[2])
                      /\ (pop = 1000000 /\ n = 15) =>
                             /\ 2 * pg[city].per_100k[1] = 3 * pg[city].per_100k[2]
                             /\ pg[city].sufficiency = "Insufficient"

\* a run with 15 own-brand rows in a city of a million (1.5 per 100k,
\* Insufficient), an own-brand row in a settlement of fifty thousand (exactly
\* 2.0 per 100k, Sufficient), and a competitor row that is not counted
C6_Witness ==
    \E i \in GapRuns :
        /\ population_data = test_population_data
        /\ OwnBrandCount(runs[i].df, "Gorod") = 15
        /\ Len(rows_of_city(runs[i].df.rows, "Gorod")) = 16
        /\ runs[i].ret.population_gaps["Gorod"].sufficiency = "Insufficient"
        /\ runs[i].ret.population_gaps["Selo"].per_100k = <<100000, 50000>>
        /\ runs[i].ret.population_gaps["Selo"].sufficiency = "Sufficient"

\* C7 as stated: analyze_gaps does not raise on a table that has the required
\* columns, whichever optional columns are absent, and returns well-formed
\* results (gap_count the length of gap_areas, 0 for an empty list); it raises
\* only when a required column is missing.
C7_GapsNeverRaiseOnRequiredColumns ==
    \A i \in GapRuns :
        /\ ({"name", "address", "city", "latitude", "longitude"} \subseteq runs[i].df.columns)
              => /\ runs[i].raised = "no"
                 /\ runs[i].ret.infrastructure_gaps.gap_count
                        = Len(runs[i].ret.infrastructure_gaps.gap_areas)
                 /\ runs[i].ret.competitive_gaps.gap_count
                        = Len(runs[i].ret.competitive_gaps.gap_areas)
        /\ runs[i].raised # "no"
              => ~({"name", "address", "city", "latitude", "longitude"}
                      \subseteq runs[i].df.columns)

-----------------------------------------------------------------------------
(* Claims on the efficiency scores. *)

\* C3 as stated: every predicted score gets one of the four buckets, Low up to
\* 10, Medium up to 15, High up to 20 and VeryHigh above, a score of 0 or
\* below being Low and a score above 25 VeryHigh; no score is without a bucket.
C3_EveryScoreBucketed ==
    (effPc # "idle" /\ effIdx > 0) =>
        /\ effCategory \in {"Low", "Medium", "High", "VeryHigh"}
        /\ (effCategory = "Low") <=> (effScore <= 10)
        /\ (effCategory = "Medium") <=> (10 < effScore /\ effScore <= 15)
        /\ (effCategory = "High") <=> (15 < effScore /\ effScore <= 20)
        /\ (effCategory = "VeryHigh") <=> (20 < effScore)

-----------------------------------------------------------------------------
(* Claims on the clustering engine. *)

\* C11 as stated: on a table with fewer than 10 rows (0 rows included) or
\* without feature columns perform_clustering returns the empty result, does
\* not raise and invokes no clustering algorithm; with 10 or more feature rows
\* it invokes both algorithms.
C11_InsufficientDataNoRaise ==
    clPc = "done" =>
        IF clRows < MinClusteringRows \/ clFeatures = 0
        THEN clOutcome = "empty" /\ clCalls = <<>>
        ELSE clCalls = <<"kmeans", "dbscan">>

\* C18: whenever the partition-based clustering has run, its result reports
\* n_clusters = 3 whatever cluster count the wcss diagnostic points at, and it
\* has one label per row, each of them 0, 1 or 2.
C18_KMeansFixedThree ==
    (clCalls # <<>> /\ clCalls[1] = "kmeans") =>
        /\ clNClusters = 3
        /\ clLabelCount > 0 => clLabel \in {0, 1, 2}
        /\ clPc # "kmeans" => clLabelCount = clRows

\* the clustering ran to its end on a table whose diagnostic points at another
\* cluster count than 3, and every row has its label
C18_Witness ==
    /\ clPc = "done"
    /\ clOutcome = "clusters"
    /\ clWcss \notin {0, 3}
    /\ clLabelCount = clRows
    /\ clLabel = 2

\* C13 as stated: whenever loading the cached model fails, the artifact being
\* missing or incompatible with the current feature table, analyze_efficiency
\* trains a new model and completes with a result instead of raising.
C13_LoadFailureFallsBack ==
    (effPc = "done" /\ effRows >= MinEfficiencyRows) =>
        effResult = "scores"

-----------------------------------------------------------------------------
(* Claims on the model stages. *)

BestFamilies(r2) == { i \in 1..Len(r2) : \A j \in 1..Len(r2) : r2[j] <= r2[i] }

\* C14: model selection returns the family of the highest held-out R2 among
\* linear_regression, random_forest and gradient_boosting, the first of them
\* in that order when several tie; it always returns one of the three names.
C14_BestModelFirstOfHighest ==
    bmResult = "models" =>
        /\ bmBest \in {"linear_regression", "random_forest", "gradient_boosting"}
        /\ \E i \in BestFamilies(bmR2) :
             /\ bmBest = ModelNames[i]
             /\ \A j \in BestFamilies(bmR2) : i <= j

\* the second and the third family tie for the highest R2 and the second is
\* returned
C14_Witness ==
    /\ bmResult = "models"
    /\ BestFamilies(bmR2) = {2, 3}
    /\ bmBest = "random_forest"

-----------------------------------------------------------------------------
(* Claims on the reports. *)

\* C15 as stated: when the dashboard rendering fails during generate_reports,
\* the JSON, CSV and text reports are still produced and their paths are
\* returned; the failure of one emitter does not abort the other emitters.
C15_RenderingFailureKeepsReports ==
    repRaised = "KeyError" =>
        /\ repReturned # "None"
        /\ {"json", "csv", "text"} \subseteq repReturned
        /\ {"json", "text"} \subseteq repFiles

\* the places of the lines of one section and kind in the text report
LinesOf(section, kinds) ==
    { i \in 1..Len(repText) : repText[i][1] = section /\ repText[i][2] \in kinds }

\* recommendation a precedes recommendation b in result order
RecBefore(a, b) ==
    LET pos(n) == CHOOSE k \in 1..Len(repResults) : repResults[k][1] = n IN
    \/ pos(a[1]) < pos(b[1])
    \/ a[1] = b[1] /\ a[2] < b[2]

\* the recommendations of all analyses
AllRecs ==
    UNION { { <<repResults[k][1], i>> : i \in 1..repResults[k][2].recommendations } :
            k \in 1..Len(repResults) }

\* C20: the text report places the coverage section before the efficiency
\* section and the recommendations of a section after its metrics; the
\* executive summary lists at most 5 recommendations, the first 5 of the
\* recommendation lists of the analyses concatenated in result order.
C20_SectionOrderAndTopFive ==
    /\ "text" \in repFiles =>
         /\ \A i \in LinesOf("coverage", {"header", "metric", "recommendation"}) :
              \A j \in LinesOf("efficiency", {"header", "top", "recommendation"}) : i < j
         /\ \A section \in {"coverage", "efficiency"} :
              \A i \in LinesOf(section, {"metric", "top"}) :
                \A j \in LinesOf(section, {"recommendation"}) : i < j
         /\ has_key(repResults, "coverage_analysis") <=> LinesOf("coverage", {"header"}) # {}
         /\ has_key(repResults, "location_analysis") <=> LinesOf("efficiency", {"header"}) # {}
    /\ \A s \in repSummary :
         /\ Len(s) <= 5
         /\ Len(s) = Min(5, Cardinality(AllRecs))
         /\ \A i \in 1..Len(s) : s[i] \in AllRecs
         /\ \A i, j \in 1..Len(s) : i < j => RecBefore(s[i], s[j])
         /\ \A i \in 1..Len(s) : \A r \in AllRecs : RecBefore(r, s[i]) => \E j \in 1..Len(s) : s[j] = r

\* the text report was written with both sections, each with a metric and a
\* recommendation, and the summary lists 5 of more than 5 recommendations
C20_Witness ==
    /\ "text" \in repFiles
    /\ LinesOf("coverage", {"metric"}) # {}
    /\ LinesOf("coverage", {"recommendation"}) # {}
    /\ LinesOf("efficiency", {"top"}) # {}
    /\ LinesOf("efficiency", {"recommendation"}) # {}
    /\ Cardinality(AllRecs) > 5
    /\ \E s \in repSummary : Len(s) = 5

\* C16 as stated: writing an AnalysisResult with the structured emitter and
\* reading the file back gives an object equal to the one written, for every
\* AnalysisResult the stages can produce: the write and the read do not fail
\* and no field is lost or altered.
C16_JsonRoundTrip ==
    /\ jsRaised \in {"none", "no"}
    /\ \A o \in jsRead : o = jsObject

-----------------------------------------------------------------------------
(* Claims on the pipeline. *)

\* the stages of run_analysis in their order
StageOrder == <<"collection", "processing", "coverage", "efficiency", "reports">>
StageRank(stage) == CHOOSE k \in 1..Len(StageOrder) : StageOrder[k] = stage

-----------------------------------------------------------------------------
(* Claims on the efficiency recommendations. *)

\* the value of a cell, a missing column counting as 0; {} when missing
CellValue(cell) == IF cell = NoColumn THEN {0} ELSE cell[1]

\* suggestion s is in the entry
Suggests(entry, s) == \E k \in 1..Len(entry.recommendations) : entry.recommendations[k] = s

-----------------------------------------------------------------------------
(* Claims on the classifier's totality. *)

\* C21: the classifier never raises: every call made so far has returned a
\* label of the five, and for the empty name and for the missing name the
\* label is Other.
C21_ClassifierNeverRaises ==
    ncalls > 0 =>
        /\ returned # {}
        /\ returned \subseteq Labels
        /\ (name = <<>> \/ name = NaN) => returned = {"Other"}

\* the missing name has been classified, as Other
C21_Witness ==
    /\ ncalls > 0
    /\ name = NaN
    /\ returned = {"Other"}

-----------------------------------------------------------------------------
(* Claims on the caller's table. *)

\* the frame df without the operator column, if it has one
WithoutOperator(df) ==
    IF "operator" \in df.columns THEN drop_columns(df, {"operator"}) ELSE df

\* the analyses run so far that returned
Returned(op) == { i \in 1..Len(runs) : runs[i].op = op /\ runs[i].raised = "no" }

\* C22: after any sequence of analyses on a table, the table has the rows and
\* the values it had in every column it had; the one column an analysis adds is
\* operator, it is added by the gap analysis only, and it holds the
\* classifier's label of each row's name.
C22_TableKeptButOperator ==
    /\ WithoutOperator(table) = table0
    /\ "operator" \in table.columns =>
          /\ Returned("analyze_gaps") # {}
          /\ \A i \in 1..Len(table.rows) :
                table.rows[i].operator = identify_operator(table.rows[i].name)

\* clustering, efficiency and gap analysis have all run to completion on a
\* table of at least the minimum of rows, and the operator column is there
C22_Witness ==
    /\ Len(runs) = 3
    /\ Returned("perform_clustering") # {}
    /\ Returned("analyze_efficiency") # {}
    /\ Returned("analyze_gaps") # {}
    /\ Len(table.rows) >= MinEfficiencyRows
    /\ "operator" \in table.columns
    /\ "cluster" \notin table.columns

-----------------------------------------------------------------------------
(* Claims on retry_on_error. *)

\* the call of the wrapper has ended
RetryEnded == rtPc \in {"returned", "raised"}

\* C23: with max_retries = n >= 1, a call of the wrapper invokes the function
\* at most n times; no invocation follows one that succeeded; the call returns
\* the result of the invocation that succeeded; and when n invocations have all
\* raised, the call raises the exception of the n-th.
C23_AtMostNInvocations ==
    rtMaxRetries >= 1 =>
        LET inv == Invocations IN
        /\ Len(inv) <= rtMaxRetries
        /\ \A i \in 1..(Len(inv) - 1) : inv[i].outcome # "ok"
        /\ rtPc = "loop" => Len(inv) < rtMaxRetries
        /\ rtPc = "returned" =>
              /\ Len(inv) >= 1
              /\ inv[Len(inv)].outcome = "ok"
              /\ rtResult = [t |-> "value", k |-> Len(inv)]
        /\ (RetryEnded /\ Len(inv) >= 1 /\ inv[Len(inv)].outcome # "ok") =>
              /\ rtPc = "raised"
              /\ rtResult = [t |-> "exception", k |-> Len(inv)]
        /\ (Len(inv) = rtMaxRetries /\ \A i \in 1..Len(inv) : inv[i].outcome # "ok") =>
              /\ rtPc = "raised"
              /\ rtResult = [t |-> "exception", k |-> rtMaxRetries]

\* the function has raised an Exception max_retries > 1 times in a row
C23_Witness ==
    /\ rtMaxRetries > 1
    /\ Len(Invocations) = rtMaxRetries
    /\ \A i \in 1..Len(Invocations) : Invocations[i].outcome = "Exception"
    /\ rtPc = "raised"
    /\ rtResult = [t |-> "exception", k |-> rtMaxRetries]

RECURSIVE Power(_, _)
Power(b, e) == IF e = 0 THEN 1 ELSE b * Power(b, e - 1)

\* the places of the sleeps in the trace, in order
SleepPlaces == { i \in 1..Len(rtTrace) : rtTrace[i].t = "sleep" }

\* the number of invocations before place i of the trace
InvocationsBefore(i) == Cardinality({ j \in 1..(i - 1) : rtTrace[j].t = "invoke" })

\* C24: every sleep directly follows a failed attempt, the k-th, with
\* k < max_retries, and lasts delay * backoff^(k-1); when the call has ended
\* the trace ends with an invocation, so no sleep follows the last attempt; a
\* call whose first attempt succeeded has not slept.
C24_SleepBetweenAttempts ==
    /\ \A i \in SleepPlaces :
          LET k == InvocationsBefore(i) IN
          /\ i > 1
          /\ rtTrace[i - 1].t = "invoke"
          /\ rtTrace[i - 1].outcome = "Exception"
          /\ k < rtMaxRetries
          /\ rtTrace[i].secs = rtDelay * Power(rtBackoff, k - 1)
          /\ i = Len(rtTrace) => rtPc = "loop"
    /\ (RetryEnded /\ rtTrace # <<>>) => rtTrace[Len(rtTrace)].t = "invoke"
    /\ (rtTrace # <<>> /\ rtTrace[1].outcome = "ok") => SleepPlaces = {}

\* two sleeps of different lengths, and no sleep after the last failed attempt
C24_Witness ==
    /\ rtPc = "raised"
    /\ Cardinality(SleepPlaces) = 2
    /\ Len(Invocations) = 3
    /\ rtDelay > 0
    /\ rtBackoff > 1
    /\ rtTrace[Len(rtTrace)].outcome = "Exception"

-----------------------------------------------------------------------------
(* Claims on the model cache. *)

\* the calls that have ended, the last one included
EndedRuns ==
    effRuns \o (IF effPc = "done"
                THEN << [rows |-> effRows, ops |-> effOps, result |-> effResult] >>
                ELSE <<>>)

\* the i-th call trained a model and completed
TrainedAndCompleted(i) ==
    /\ \E k \in 1..Len(EndedRuns[i].ops) : EndedRuns[i].ops[k] = "train"
    /\ EndedRuns[i].result = "scores"

\* a model artifact is at the cache path
ArtifactExists == effCache \in {"compatible", "incompatible"}

-----------------------------------------------------------------------------
(* Claims on the returned report paths. *)

\* generate_reports has been called
ReportsCalled == repRaised # "none" \/ repReturned # "None"

\* C26 as stated: a call of generate_reports that no failure of the file
\* system cuts short returns the mapping of the four formats, and every path
\* of it names a file written during the call, also when the results hold no
\* coverage metrics and no efficiency scores.
C26_ReturnedPathsWritten ==
    (ReportsCalled /\ repRaised # "OSError") =>
        /\ repReturned # "None"
        /\ \A format \in Range(Emitters) : format \in repReturned /\ format \in repFiles

-----------------------------------------------------------------------------
(* Claims on run_all_cities. *)

\* the cities processed, in the order of their processing
ProcessedCities ==
    LET turns == SelectSeq(rcTrace, LAMBDA e : e.t = "city")
    IN  [k \in 1..Len(turns) |-> turns[k].city]

\* the city c is listed n times in the list l
TimesIn(c, l) == Cardinality({ k \in 1..Len(l) : l[k] = c })

\* C27: when main has finished, the cities processed are those of CITIES, each
\* once and in configuration order; every city is in exactly one of the lists
\* successful_cities and failed_cities, once; and a pause of 15 seconds lies
\* between every two consecutive cities and nowhere else, so none follows the
\* last city.
C27_EveryCityOnceWithPauses ==
    rcPc = "done" /\ rcIdx = Len(rcCities) =>
        /\ ProcessedCities = rcCities
        /\ \A k \in 1..Len(rcCities) :
              TimesIn(rcCities[k], rcSuccessful) + TimesIn(rcCities[k], rcFailed) = 1
        /\ Len(rcSuccessful) + Len(rcFailed) = Len(rcCities)
        /\ Len(rcTrace) = IF rcCities = <<>> THEN 0 ELSE 2 * Len(rcCities) - 1
        /\ \A k \in 1..Len(rcTrace) :
              /\ rcTrace[k].t = IF k % 2 = 1 THEN "city" ELSE "sleep"
              /\ rcTrace[k].t = "sleep" => rcTrace[k].secs = PauseSeconds

\* main has finished on a configuration whose first city failed and whose
\* later cities were processed all the same, one of them with success
C27_Witness ==
    /\ rcPc = "done"
    /\ Len(rcCities) = 3
    /\ rcFailed # <<>>
    /\ rcFailed[1] = rcCities[1]
    /\ rcSuccessful # <<>>
    /\ rcTrace[Len(rcTrace)].t = "city"

-----------------------------------------------------------------------------
(* Claims on the child process of run_all_cities. *)

\* the parent waits in readline() on an empty stdout pipe
ParentBlockedOnStdout == parPc = "read_stdout" /\ pipeOut = 0 /\ chState = "running"

\* the child waits in a write to a full stderr pipe
ChildBlockedOnStderr ==
    /\ chState = "running"
    /\ chProgram # <<>>
    /\ Head(chProgram) = "err"
    /\ ~has_room(pipeErr)

\* C28 as stated: the parent is never blocked reading the child's stdout while
\* the child is blocked writing to its stderr, and a call that has returned
\* after the child's exit has returned True exactly when the exit status is 0.
C28_NeverBlockedOnUndrainedStderr ==
    /\ ~(ParentBlockedOnStdout /\ ChildBlockedOnStderr)
    /\ (parPc = "returned" /\ chState = "exited") =>
          parResult = IF chCode = 0 THEN "True" ELSE "False"

-----------------------------------------------------------------------------
(* Claims on the own-brand filter. *)

\* C29 as stated: whatever the name, the own-brand filter selects its row
\* exactly when the classifier labels it Tele2, so that no row is both in the
\* own-brand set and, by a competitor's label, in the competitor set.
C29_FilterAgreesWithClassifier ==
    (flSelected # {} /\ ncalls > 0) =>
        /\ (TRUE \in flSelected) <=> (returned = {"Tele2"})
        /\ ~(TRUE \in flSelected /\ returned \cap CompetitorLabels # {})

-----------------------------------------------------------------------------
(* Claims on missing coordinates. *)

\* some row of the table has no coordinates
SomeRowWithoutCoordinates(t) ==
    \E i \in 1..Len(t.rows) : isna(t.rows[i].latitude) \/ isna(t.rows[i].longitude)

\* C30 as stated: analyze_coverage on a table in which some rows have no
\* coordinates does not raise, and every gap location it reports is the
\* coordinate pair of a row that has coordinates.
C30_MissingCoordinatesTolerated ==
    \A i \in CoverageRuns :
        SomeRowWithoutCoordinates(table0) =>
            /\ runs[i].raised = "no"
            /\ \A g \in Range(runs[i].ret.gaps.gap_locations) :
                  g \in Range(coords_dropna(table0.rows))

=============================================================================
